---- MODULE Spec2Model ----
(***************************************************************************)
(* State-machine model of the SLIP network driver, drivers/net/slip.c:     *)
(* the frame encoder (slip_transmit), the frame decoder (slip_receive),    *)
(* the receiver task (slip_rxtask), the transmitter task (slip_txtask),   *)
(* the interface callbacks and the start-up code (slip_initialize).        *)
(***************************************************************************)
EXTENDS Integers, Sequences, FiniteSets, TLC

(***************************************************************************)
(* Wire format, slip.c:114-117 (octal 0300, 0333, 0334, 0335).             *)
(***************************************************************************)
SLIP_END == 192
SLIP_ESC == 219
SLIP_ESC_END == 220
SLIP_ESC_ESC == 221

(***************************************************************************)
(* Bounds of the model.                                                    *)
(***************************************************************************)
\* CONFIG_NET_SLIP_PKTSIZE, the MTU (the build requires >= 296; the model
\* keeps the buffers of PKTSIZE + 2 bytes small).
PKTSIZE == 2
\* Longest serial input stream enumerated exhaustively.
MaxStream == 4
\* Longest tail enumerated after a full buffer.
MaxTail == 3

\* sizeof(rxbuf) = sizeof(txbuf) = CONFIG_NET_SLIP_PKTSIZE + 2, slip.c:151-152
BUFSIZE == PKTSIZE + 2

(***************************************************************************)
(* Byte values the model distinguishes: 0x41 (IP version 4), 0x60 (IP      *)
(* version 6) and the four framing codes (all of IP version 12 or 13).     *)
(***************************************************************************)
DataBytes == {65, 96}
Bytes == DataBytes \cup {SLIP_END, SLIP_ESC, SLIP_ESC_END, SLIP_ESC_ESC}

RECURSIVE SeqsOfLen(_, _)
SeqsOfLen(S, n) ==
  IF n = 0 THEN {<<>>}
  ELSE {Append(s, b) : s \in SeqsOfLen(S, n - 1), b \in S}

SeqsUpTo(S, n) == UNION {SeqsOfLen(S, k) : k \in 0..n}

Tasks == {"rx", "tx"}

VARIABLES
  pc,         \* position of each task: "rx", "tx", "init"
  bifup,      \* priv->bifup
  txnodelay,  \* priv->txnodelay
  waitsem,    \* count of priv->waitsem
  rxlen,      \* priv->rxlen
  rxbuf,      \* priv->rxbuf, indexed 0..BUFSIZE-1
  txbuf,      \* priv->txbuf, indexed 0..BUFSIZE-1
  d_buf,      \* priv->dev.d_buf: "rx", "tx" or "null"
  d_len,      \* priv->dev.d_len
  ch,         \* the local ch of slip_rxtask / slip_receive
  x,          \* the locals of slip_transmit, per calling task
  serin,      \* the bytes the serial line delivers to read(priv->fd)
  rxpos,      \* how many of them have been read
  wire,       \* the bytes written with write(priv->fd), in order
  holder,     \* history: the task whose slip_semtake returned last, "none" after a give
  inStack,    \* history: the tasks inside ipv4_input, ipv6_input, devif_timer or devif_poll
  delivered,  \* history: the packets handed to the packet-processing step
  sent,       \* history: the packets slip_transmit was started on
  fault,      \* history: a buffer was written outside its bounds
  registered, \* netdev_register was called: the stack knows the interface
  stats,      \* the NETDEV_* statistics calls made, counted per counter
  sentBy,     \* history: the task that called slip_transmit, per entry of sent
  call,       \* history: the stack's last call of an interface callback
  sigalrm,    \* a SIGALRM sent to the transmitter task is pending
  fd,         \* priv->fd
  fdopen,     \* the descriptor slip_initialize opened is open
  initret,    \* the value slip_initialize returns, read once it has returned
  clock,      \* the system timer, what clock_systimer() returns
  start_ticks, \* the local start_ticks of slip_txtask
  now_ticks,  \* the local now_ticks of slip_txtask
  hsec,       \* the local hsec of slip_txtask
  polling,    \* the poll function slip_txtask is inside, "none" outside
  semret,     \* per caller, the local ret of slip_semtake: what nxsem_wait
              \* returned last
  polled      \* the last slip_txpoll of the poll under way: what
              \* devif_loopback returned to it and what it returned

vars == <<pc, bifup, txnodelay, waitsem, rxlen, rxbuf, txbuf, d_buf, d_len, ch,
          x, serin, rxpos, wire, holder, inStack, delivered, sent, fault,
          registered, stats, sentBy, call, sigalrm, fd, fdopen, initret,
          clock, start_ticks, now_ticks, hsec, polling, semret, polled>>

(***************************************************************************)
(* Buffers.                                                                *)
(***************************************************************************)
\* memset(priv, 0, sizeof(struct slip_driver_s)), slip.c:977
ZeroBuf == [i \in 0..(BUFSIZE - 1) |-> 0]

\* The first n bytes of a buffer, as a packet.
Prefix(buf, n) == [i \in 1..n |-> buf[i - 1]]

\* A buffer holding packet p from offset 0, the rest as in buf.
Filled(buf, p) ==
  [i \in 0..(BUFSIZE - 1) |-> IF i < Len(p) THEN p[i + 1] ELSE buf[i]]

\* The buffer priv->dev.d_buf designates.
BufOf(name) == IF name = "rx" THEN rxbuf ELSE txbuf

\* The version field of the first header byte (vhl & IP_VERSION_MASK).
IPVersion(b) == b \div 16

\* The statistics counters slip.c counts in, all zero after the memset.
NoStats == [tx_packets |-> 0, tx_done |-> 0, rx_packets |-> 0, rx_ipv4 |-> 0,
            rx_ipv6 |-> 0, rx_errors |-> 0]

\* One NETDEV_TXPACKETS, NETDEV_RXERRORS, ... call on counter c.
netdev_count(s, c) == [s EXCEPT ![c] = @ + 1]


(***************************************************************************)
(* slip_write / slip_putc: the bytes reach the serial line in call order.  *)
(***************************************************************************)
slip_write(bytes) == wire' = wire \o bytes

(***************************************************************************)
(* slip_transmit, the frame encoder.  Its locals are st = [buf, src,       *)
(* start, len, rem]: the source buffer, the scan index, the start and      *)
(* length of the pending run of literal bytes, and the bytes left.         *)
(***************************************************************************)
XIdle == [buf |-> "null", src |-> 0, start |-> 0, len |-> 0, rem |-> 0]

\* slip.c:303-306
slip_transmit_locals(bufname, len) ==
  [buf |-> bufname, src |-> 0, start |-> 0, len |-> 0, rem |-> len]

\* "Flush any unsent data": if (len > 0) slip_write(priv, start, len)
slip_transmit_flush(buf, st) ==
  IF st.len > 0 THEN [i \in 1..st.len |-> buf[st.start + i - 1]] ELSE <<>>

\* Mutation: the byte is sent after the ESC as it is.
slip_transmit_esc_raw(c) == c

\* The escape code of a byte that needs one (slip.c:317-327).
slip_transmit_esc(c) == IF c = SLIP_END THEN SLIP_ESC_END ELSE SLIP_ESC_ESC

\* The bytes one iteration of the scan loop writes (slip.c:310-355).
slip_transmit_writes(buf, st) ==
  LET c == buf[st.src] IN
  IF c = SLIP_END \/ c = SLIP_ESC
  THEN slip_transmit_flush(buf, st) \o <<SLIP_ESC, slip_transmit_esc(c)>>
  ELSE <<>>

\* Mutation: the run is not restarted after an escape.
slip_transmit_next_keepstart(buf, st) ==
  LET c == buf[st.src] IN
  IF c = SLIP_END \/ c = SLIP_ESC
  THEN [st EXCEPT !.len = 0, !.src = st.src + 1, !.rem = st.rem - 1]
  ELSE [st EXCEPT !.len = st.len + 1,
                  !.src = st.src + 1, !.rem = st.rem - 1]

\* The locals after one iteration of the scan loop (slip.c:308-360).
slip_transmit_next(buf, st) ==
  LET c == buf[st.src] IN
  IF c = SLIP_END \/ c = SLIP_ESC
  THEN [st EXCEPT !.start = st.src + 1, !.len = 0,
                  !.src = st.src + 1, !.rem = st.rem - 1]
  ELSE [st EXCEPT !.len = st.len + 1,
                  !.src = st.src + 1, !.rem = st.rem - 1]

\* Mutation: the closing END token is not written.
slip_transmit_tail_noend(buf, st) == slip_transmit_flush(buf, st)

\* The bytes written after the scan: the last run and the END token.
slip_transmit_tail(buf, st) == slip_transmit_flush(buf, st) \o <<SLIP_END>>

RECURSIVE slip_transmit_scan(_, _)
slip_transmit_scan(buf, st) ==
  IF st.rem > 0
  THEN slip_transmit_writes(buf, st)
         \o slip_transmit_scan(buf, slip_transmit_next(buf, st))
  ELSE slip_transmit_tail(buf, st)

\* Everything slip_transmit writes for the packet buf[0..len-1].
slip_transmit(buf, len) ==
  <<SLIP_END>> \o slip_transmit_scan(buf, slip_transmit_locals("tx", len))

\* Where slip_transmit returns to: slip_rxtask after the inline reply
\* (slip.c:748/766), or the poll that called slip_txpoll (slip.c:412).
XmitReturn(t) == IF t = "rx" THEN "give" ELSE "poll"

\* slip.c:292-306: statistics, the initial END, the locals.
slip_transmit_begin(t) ==
  /\ pc[t] = "x_begin"
  /\ slip_write(<<SLIP_END>>)
  /\ x' = [x EXCEPT ![t] = slip_transmit_locals(d_buf, d_len)]
  /\ sent' = Append(sent, Prefix(BufOf(d_buf), d_len))
  /\ sentBy' = Append(sentBy, t)
  /\ stats' = netdev_count(stats, "tx_packets")
  /\ pc' = [pc EXCEPT ![t] = "x_loop"]
  /\ UNCHANGED <<bifup, txnodelay, waitsem, rxlen, rxbuf, txbuf, d_buf, d_len,
                 ch, serin, rxpos, holder, inStack, delivered, fault,
                 registered, call, sigalrm, fd, fdopen, initret, clock,
                 start_ticks, now_ticks, hsec, polling, semret, polled>>

\* slip.c:308-360: one iteration of while (remaining-- > 0).
slip_transmit_loop(t) ==
  /\ pc[t] = "x_loop"
  /\ x[t].rem > 0
  /\ slip_write(slip_transmit_writes(BufOf(x[t].buf), x[t]))
  /\ x' = [x EXCEPT ![t] = slip_transmit_next(BufOf(x[t].buf), x[t])]
  /\ UNCHANGED <<pc, bifup, txnodelay, waitsem, rxlen, rxbuf, txbuf, d_buf,
                 d_len, ch, serin, rxpos, holder, inStack, delivered, sent,
                 fault, registered, stats, sentBy, call, sigalrm, fd, fdopen,
                 initret, clock, start_ticks, now_ticks, hsec, polling,
                 semret, polled>>

\* Mutation: slip_transmit leaves the flag as it is.
slip_transmit_txnodelay_kept == txnodelay

\* slip.c:375: priv->txnodelay = true
slip_transmit_txnodelay == TRUE

\* slip.c:366-376: last flush, the END token, txnodelay = true, return.
slip_transmit_end(t) ==
  /\ pc[t] = "x_loop"
  /\ x[t].rem <= 0
  /\ slip_write(slip_transmit_tail(BufOf(x[t].buf), x[t]))
  /\ stats' = netdev_count(stats, "tx_done")
  /\ txnodelay' = slip_transmit_txnodelay
  /\ x' = [x EXCEPT ![t] = XIdle]
  /\ pc' = [pc EXCEPT ![t] = XmitReturn(t)]
  /\ UNCHANGED <<bifup, waitsem, rxlen, rxbuf, txbuf, d_buf, d_len, ch, serin,
                 rxpos, holder, inStack, delivered, sent, fault, registered,
                 sentBy, call, sigalrm, fd, fdopen, initret, clock,
                 start_ticks, now_ticks, hsec, polling, semret, polled>>

(***************************************************************************)
(* slip_semtake / slip_semgive on priv->waitsem.                           *)
(***************************************************************************)
\* Mutation: the wait returns without the count being positive.
slip_semtake_ready_always == TRUE

\* nxsem_wait returns OK only when the count was positive, and takes one.
slip_semtake_ready == waitsem > 0

\* Mutation: slip_semtake returns after an interrupted wait.
slip_semtake_retries_never(r) == FALSE

\* slip.c:220: while (ret == -EINTR)
slip_semtake_retries(r) == r = "EINTR"

\* slip.c:208-220: nxsem_wait returns OK with the semaphore taken.
slip_semtake(t) ==
  /\ slip_semtake_ready
  /\ waitsem' = waitsem - 1
  /\ holder' = t
  /\ semret' = [semret EXCEPT ![t] = "OK"]

\* No nxsem_wait has returned an error.
NoSemError == [t \in {"rx", "tx", "init"} |-> "OK"]

slip_semgive ==
  /\ waitsem' = waitsem + 1
  /\ holder' = "none"


(***************************************************************************)
(* slip_getc: the next byte of the serial line; the read blocks while      *)
(* there is none.                                                          *)
(***************************************************************************)
slip_getc_ready == rxpos < Len(serin)

slip_getc ==
  /\ slip_getc_ready
  /\ ch' = serin[rxpos + 1]
  /\ rxpos' = rxpos + 1

(***************************************************************************)
(* slip_receive, the frame decoder.                                        *)
(***************************************************************************)
\* A store into rxbuf; an index outside the array is an out-of-bounds write.
rxbuf_in_bounds(i) == i >= 0 /\ i < BUFSIZE

rxbuf_store(buf, i, c) == IF rxbuf_in_bounds(i) THEN [buf EXCEPT ![i] = c] ELSE buf

\* Mutation: the capacity test is off by one.
slip_receive_room_offbyone(len) == len <= PKTSIZE + 2

\* Mutation: no capacity test.
slip_receive_room_always(len) == TRUE

\* slip.c:634: if (priv->rxlen < CONFIG_NET_SLIP_PKTSIZE + 2)
slip_receive_room(len) == len < PKTSIZE + 2

\* Mutation: escape codes are stored as they are.
slip_receive_unescape_none(c) == c

\* Mutation: the two escape codes are swapped.
slip_receive_unescape_swapped(c) ==
  IF c = SLIP_ESC_END THEN SLIP_ESC
  ELSE IF c = SLIP_ESC_ESC THEN SLIP_END
  ELSE c

\* Mutation: a byte that is no escape code is taken for ESC_ESC.
slip_receive_unescape_strict(c) ==
  IF c = SLIP_ESC_END THEN SLIP_END ELSE SLIP_ESC

\* slip.c:610-625: the byte an escape code stands for.
slip_receive_unescape(c) ==
  IF c = SLIP_ESC_END THEN SLIP_END
  ELSE IF c = SLIP_ESC_ESC THEN SLIP_ESC
  ELSE c

\* slip.c:632-639: the default handler stores the byte if there is room.
slip_receive_default(c) ==
  IF slip_receive_room(rxlen)
  THEN /\ rxbuf' = rxbuf_store(rxbuf, rxlen, c)
       /\ rxlen' = rxlen + 1
       /\ fault' = (fault \/ ~rxbuf_in_bounds(rxlen))
  ELSE UNCHANGED <<rxbuf, rxlen, fault>>

\* Mutation: every END completes a packet.
slip_receive_complete_always(len) == TRUE

\* slip.c:587: an END completes the packet only if there is data in it.
slip_receive_complete(len) == len > 0

\* slip.c:567-593, 632-639: a byte read in the normal state.
slip_receive_normal ==
  /\ pc["rx"] = "recv"
  /\ slip_getc
  /\ IF ch' = SLIP_END
     THEN /\ pc' = [pc EXCEPT !["rx"] =
                      IF slip_receive_complete(rxlen) THEN "take" ELSE "recv"]
          /\ UNCHANGED <<rxbuf, rxlen, fault>>
     ELSE IF ch' = SLIP_ESC
     THEN /\ pc' = [pc EXCEPT !["rx"] = "esc"]
          /\ UNCHANGED <<rxbuf, rxlen, fault>>
     ELSE /\ slip_receive_default(ch')
          /\ UNCHANGED pc
  /\ UNCHANGED <<bifup, txnodelay, waitsem, txbuf, d_buf, d_len, x, serin,
                 wire, holder, inStack, delivered, sent, registered, stats,
                 sentBy, call, sigalrm, fd, fdopen, initret, clock,
                 start_ticks, now_ticks, hsec, polling, semret, polled>>

\* slip.c:603-639: the byte read after an ESC.
slip_receive_escaped ==
  /\ pc["rx"] = "esc"
  /\ slip_getc
  /\ slip_receive_default(slip_receive_unescape(ch'))
  /\ pc' = [pc EXCEPT !["rx"] = "recv"]
  /\ UNCHANGED <<bifup, txnodelay, waitsem, txbuf, d_buf, d_len, x, serin,
                 wire, holder, inStack, delivered, sent, registered, stats,
                 sentBy, call, sigalrm, fd, fdopen, initret, clock,
                 start_ticks, now_ticks, hsec, polling, semret, polled>>

(***************************************************************************)
(* slip_rxtask.                                                            *)
(***************************************************************************)
\* slip.c:675: wake up the waiting initialization logic.
slip_rxtask_start ==
  /\ pc["rx"] = "start"
  /\ slip_semgive
  /\ pc' = [pc EXCEPT !["rx"] = "getc"]
  /\ UNCHANGED <<bifup, txnodelay, rxlen, rxbuf, txbuf, d_buf, d_len, ch, x,
                 serin, rxpos, wire, inStack, delivered, sent, fault,
                 registered, stats, sentBy, call, sigalrm, fd, fdopen,
                 initret, clock, start_ticks, now_ticks, hsec, polling,
                 semret, polled>>

\* slip.c:684: wait for the next character.
slip_rxtask_getc ==
  /\ pc["rx"] = "getc"
  /\ slip_getc
  /\ pc' = [pc EXCEPT !["rx"] = "first"]
  /\ UNCHANGED <<bifup, txnodelay, waitsem, rxlen, rxbuf, txbuf, d_buf, d_len,
                 x, serin, wire, holder, inStack, delivered, sent, fault,
                 registered, stats, sentBy, call, sigalrm, fd, fdopen,
                 initret, clock, start_ticks, now_ticks, hsec, polling,
                 semret, polled>>

\* Mutation: the length of the packet before is kept at a leading END.
slip_rxtask_restart_keep == rxlen

\* slip.c:701: priv->rxlen = 0.
slip_rxtask_restart == 0

\* slip.c:688-712: drop the byte while the interface is down; otherwise an
\* END starts an empty packet and any other byte becomes rxbuf[0].
slip_rxtask_first ==
  /\ pc["rx"] = "first"
  /\ IF ~bifup
     THEN /\ pc' = [pc EXCEPT !["rx"] = "getc"]
          /\ UNCHANGED <<rxbuf, rxlen>>
     ELSE /\ pc' = [pc EXCEPT !["rx"] = "recv"]
          /\ IF ch = SLIP_END
             THEN /\ rxlen' = slip_rxtask_restart
                  /\ UNCHANGED rxbuf
             ELSE /\ rxbuf' = rxbuf_store(rxbuf, 0, ch)
                  /\ rxlen' = 1
  /\ UNCHANGED <<bifup, txnodelay, waitsem, txbuf, d_buf, d_len, ch, x, serin,
                 rxpos, wire, holder, inStack, delivered, sent, fault,
                 registered, stats, sentBy, call, sigalrm, fd, fdopen,
                 initret, clock, start_ticks, now_ticks, hsec, polling,
                 semret, polled>>

\* slip.c:722: get exclusive access to the network.
slip_rxtask_take ==
  /\ pc["rx"] = "take"
  /\ slip_semtake("rx")
  /\ pc' = [pc EXCEPT !["rx"] = "input"]
  /\ UNCHANGED <<bifup, txnodelay, rxlen, rxbuf, txbuf, d_buf, d_len, ch, x,
                 serin, rxpos, wire, inStack, delivered, sent, fault,
                 registered, stats, sentBy, call, sigalrm, fd, fdopen,
                 initret, clock, start_ticks, now_ticks, hsec, polling,
                 polled>>

\* Mutation: whatever is not version 4 goes to ipv6_input.
slip_rxtask_route_noerror(b) == IF IPVersion(b) = 4 THEN "ipv4" ELSE "ipv6"

\* slip.c:736, 754: which input function the first byte selects.
slip_rxtask_route(b) ==
  IF IPVersion(b) = 4 THEN "ipv4"
  ELSE IF IPVersion(b) = 6 THEN "ipv6"
  ELSE "error"

\* Mutation: every packet is counted as an IPv4 packet.
slip_rxtask_counter_ipv4(route) == "rx_ipv4"

\* The counter each branch of the dispatch counts in (slip.c:738, 756, 772).
slip_rxtask_counter(route) ==
  IF route = "ipv4" THEN "rx_ipv4"
  ELSE IF route = "ipv6" THEN "rx_ipv6"
  ELSE "rx_errors"

\* Mutation: the error branch goes back to the read without slip_semgive.
slip_rxtask_after_norelease(route) ==
  IF route = "error" THEN "getc" ELSE route

\* Mutation: the error branch falls into the transmission of d_buf.
slip_rxtask_after_fallthrough(route) ==
  IF route = "error" THEN "x_begin" ELSE route

\* slip.c:739, 757, 770-776: where slip_rxtask is after the dispatch: inside
\* the input function, or, for an unsupported version, at slip_semgive.
slip_rxtask_after(route) == IF route = "error" THEN "give" ELSE route

\* slip.c:723-739, 754-757, 772: hand the packet over and call ipv4_input
\* or ipv6_input, or count an error.
slip_rxtask_input ==
  /\ pc["rx"] = "input"
  /\ d_buf' = "rx"
  /\ d_len' = rxlen
  /\ LET route == slip_rxtask_route(rxbuf[0]) IN
       /\ delivered' = Append(delivered,
                              [pkt |-> Prefix(rxbuf, rxlen), to |-> route,
                               gate |-> holder])
       /\ stats' = netdev_count(netdev_count(stats, "rx_packets"),
                                slip_rxtask_counter(route))
       /\ pc' = [pc EXCEPT !["rx"] = slip_rxtask_after(route)]
       /\ inStack' = IF slip_rxtask_after(route) \in {"ipv4", "ipv6"}
                     THEN inStack \cup {"rx"} ELSE inStack
  /\ UNCHANGED <<bifup, txnodelay, waitsem, rxlen, rxbuf, txbuf, ch, x, serin,
                 rxpos, wire, holder, sent, fault, registered, sentBy, call,
                 sigalrm, fd, fdopen, initret, clock, start_ticks, now_ticks,
                 hsec, polling, semret, polled>>

\* What the stack may leave in d_buf when an input function returns:
\* nothing (d_len = 0) or a reply.
Replies == {<<>>, <<65, SLIP_END>>}

\* Mutation: slip_transmit is called whatever d_len the stack left.
slip_rxtask_replies_always(len) == TRUE

\* slip.c:745, 763: if (priv->dev.d_len > 0)
slip_rxtask_replies(len) == len > 0

\* slip.c:739-749, 757-767: ipv4_input / ipv6_input returns; a reply left
\* in the buffer (d_len > 0) is transmitted from the receive buffer.
slip_rxtask_input_done ==
  /\ pc["rx"] \in {"ipv4", "ipv6"}
  /\ \E r \in Replies :
       /\ rxbuf' = IF d_buf = "rx" THEN Filled(rxbuf, r) ELSE rxbuf
       /\ txbuf' = IF d_buf = "tx" THEN Filled(txbuf, r) ELSE txbuf
       /\ d_len' = Len(r)
       /\ pc' = [pc EXCEPT !["rx"] =
                   IF slip_rxtask_replies(Len(r)) THEN "x_begin" ELSE "give"]
  /\ inStack' = inStack \ {"rx"}
  /\ UNCHANGED <<bifup, txnodelay, waitsem, rxlen, d_buf, ch, x, serin, rxpos,
                 wire, holder, delivered, sent, fault, registered, stats,
                 sentBy, call, sigalrm, fd, fdopen, initret, clock,
                 start_ticks, now_ticks, hsec, polling, semret, polled>>

\* slip.c:776
slip_rxtask_give ==
  /\ pc["rx"] = "give"
  /\ slip_semgive
  /\ pc' = [pc EXCEPT !["rx"] = "getc"]
  /\ UNCHANGED <<bifup, txnodelay, rxlen, rxbuf, txbuf, d_buf, d_len, ch, x,
                 serin, rxpos, wire, inStack, delivered, sent, fault,
                 registered, stats, sentBy, call, sigalrm, fd, fdopen,
                 initret, clock, start_ticks, now_ticks, hsec, polling,
                 semret, polled>>


(***************************************************************************)
(* slip_txpoll and slip_txtask.                                            *)
(***************************************************************************)
\* Most frames the transmitter polls out in one run of the model.
MaxFrames == 1

\* The frames the transmitter has polled out so far.
TxFrames == Cardinality({i \in DOMAIN sentBy : sentBy[i] = "tx"})

\* What the stack may have to send when it calls back from a poll.
TxPackets == {<<96, SLIP_ESC>>}

\* No callback yet in this poll.
NoPoll == [loopback |-> FALSE, ret |-> 0]

\* slip.c:420: return 0
slip_txpoll_ret == 0

\* devif_timer / devif_poll go on to the next connection while the callback
\* returns zero (slip.c:416-418).
devif_continues(r) == r = 0

\* Mutation: a packet is transmitted although the loopback took it.
slip_txpoll_sends_looped(len, loopback) == len > 0

\* slip.c:408-413: transmit if the poll left data and it is not looped back.
slip_txpoll_sends(len, loopback) == len > 0 /\ ~loopback

\* slip.c:400-421: devif_timer / devif_poll calls back with the packet it
\* wants sent in d_buf (or with none, d_len = 0).
slip_txpoll ==
  /\ pc["tx"] = "poll"
  /\ devif_continues(polled.ret)
  /\ \E p \in TxPackets \cup {<<>>}, loopback \in BOOLEAN :
       /\ Len(p) > 0 => TxFrames < MaxFrames
       /\ polled' = [loopback |-> Len(p) > 0 /\ loopback,
                     ret |-> slip_txpoll_ret]
       /\ rxbuf' = IF d_buf = "rx" THEN Filled(rxbuf, p) ELSE rxbuf
       /\ txbuf' = IF d_buf = "tx" THEN Filled(txbuf, p) ELSE txbuf
       /\ d_len' = Len(p)
       /\ pc' = [pc EXCEPT !["tx"] =
                   IF slip_txpoll_sends(Len(p), loopback) THEN "x_begin"
                   ELSE "poll"]
  /\ UNCHANGED <<bifup, txnodelay, waitsem, rxlen, d_buf, ch, x, serin, rxpos,
                 wire, holder, inStack, delivered, sent, fault, registered,
                 stats, sentBy, call, sigalrm, fd, fdopen, initret, clock,
                 start_ticks, now_ticks, hsec, polling, semret>>

\* The width of clock_t and of unsigned int in bits, scaled down; the clock
\* counts modulo 2^ClockWidth.
ClockWidth == 3

ClockMod == 2 ^ ClockWidth

\* Clock ticks per half second, scaled down.
TICK_PER_HSEC == 2

\* clock_systimer() (slip.c:457, 491): the current tick count.
clock_systimer == clock

\* a - b in clock_t arithmetic.
clock_sub(a, b) == (a - b + ClockMod) % ClockMod

\* slip.c:492: the whole half seconds between the baseline and now.
slip_txtask_hsec(now, start) == clock_sub(now, start) \div TICK_PER_HSEC

\* Mutation: the plain poll whatever time has elapsed.
slip_txtask_poll_fn_plain(h) == "devif_poll"

\* slip.c:493-505: the timer poll if a half second has elapsed, else the
\* plain poll.
slip_txtask_poll_fn(h) == IF h > 0 THEN "devif_timer" ELSE "devif_poll"

\* Mutation: the baseline advances by one half second only.
slip_txtask_baseline_one(start, h) == (start + TICK_PER_HSEC) % ClockMod

\* slip.c:498: start_ticks += hsec * TICK_PER_HSEC
slip_txtask_baseline(start, h) == (start + h * TICK_PER_HSEC) % ClockMod

\* The system timer advances by one tick.
clock_tick ==
  /\ clock' = (clock + 1) % ClockMod
  /\ UNCHANGED <<pc, bifup, txnodelay, waitsem, rxlen, rxbuf, txbuf, d_buf,
                 d_len, ch, x, serin, rxpos, wire, holder, inStack, delivered,
                 sent, fault, registered, stats, sentBy, call, sigalrm, fd,
                 fdopen, initret, start_ticks, now_ticks, hsec, polling,
                 semret, polled>>

\* The timer and the locals of slip_txtask with the clock at c and
\* slip_txtask outside the poll functions.
TimerAt(c) ==
  /\ clock = c
  /\ start_ticks = c
  /\ now_ticks = c
  /\ hsec = 0

\* Mutation: slip_txtask enters its loop without the post.
slip_txtask_start_nopost ==
  /\ pc["tx"] = "start"
  /\ start_ticks' = clock_systimer
  /\ pc' = [pc EXCEPT !["tx"] = "delay_take"]
  /\ UNCHANGED <<bifup, txnodelay, waitsem, rxlen, rxbuf, txbuf, d_buf, d_len,
                 ch, x, serin, rxpos, wire, holder, inStack, delivered, sent,
                 fault, registered, stats, sentBy, call, sigalrm, fd, fdopen,
                 initret, clock, now_ticks, hsec, polling, semret, polled>>

\* slip.c:453: wake up the waiting initialization logic.
slip_txtask_start ==
  /\ pc["tx"] = "start"
  /\ slip_semgive
  /\ start_ticks' = clock_systimer
  /\ pc' = [pc EXCEPT !["tx"] = "delay_take"]
  /\ UNCHANGED <<bifup, txnodelay, rxlen, rxbuf, txbuf, d_buf, d_len, ch, x,
                 serin, rxpos, wire, inStack, delivered, sent, fault,
                 registered, stats, sentBy, call, sigalrm, fd, fdopen,
                 initret, clock, now_ticks, hsec, polling, semret, polled>>

\* slip.c:462
slip_txtask_delay_take ==
  /\ pc["tx"] = "delay_take"
  /\ slip_semtake("tx")
  /\ pc' = [pc EXCEPT !["tx"] = "flag"]
  /\ UNCHANGED <<bifup, txnodelay, rxlen, rxbuf, txbuf, d_buf, d_len, ch, x,
                 serin, rxpos, wire, inStack, delivered, sent, fault,
                 registered, stats, sentBy, call, sigalrm, fd, fdopen,
                 initret, clock, start_ticks, now_ticks, hsec, polling,
                 polled>>

\* Mutation: the task goes to its sleep whatever the flag says.
slip_txtask_flag_next_sleep(flag) == "give_sleep"

\* slip.c:463-470: if (!priv->txnodelay) release and sleep, else clear the
\* flag and release.
slip_txtask_flag_next(flag) == IF ~flag THEN "give_sleep" ELSE "clear"

\* slip.c:463: read txnodelay, with the gate held.
slip_txtask_flag ==
  /\ pc["tx"] = "flag"
  /\ pc' = [pc EXCEPT !["tx"] = slip_txtask_flag_next(txnodelay)]
  /\ UNCHANGED <<bifup, txnodelay, waitsem, rxlen, rxbuf, txbuf, d_buf, d_len,
                 ch, x, serin, rxpos, wire, holder, inStack, delivered, sent,
                 fault, registered, stats, sentBy, call, sigalrm, fd, fdopen,
                 initret, clock, start_ticks, now_ticks, hsec, polling,
                 semret, polled>>

\* slip.c:470: txnodelay = false.
slip_txtask_clear ==
  /\ pc["tx"] = "clear"
  /\ txnodelay' = FALSE
  /\ pc' = [pc EXCEPT !["tx"] = "give_go"]
  /\ UNCHANGED <<bifup, waitsem, rxlen, rxbuf, txbuf, d_buf, d_len, ch, x,
                 serin, rxpos, wire, holder, inStack, delivered, sent, fault,
                 registered, stats, sentBy, call, sigalrm, fd, fdopen,
                 initret, clock, start_ticks, now_ticks, hsec, polling,
                 semret, polled>>

\* slip.c:465, 471
slip_txtask_delay_give ==
  /\ pc["tx"] \in {"give_sleep", "give_go"}
  /\ slip_semgive
  /\ pc' = [pc EXCEPT !["tx"] =
              IF pc["tx"] = "give_sleep" THEN "usleep" ELSE "ifup"]
  /\ UNCHANGED <<bifup, txnodelay, rxlen, rxbuf, txbuf, d_buf, d_len, ch, x,
                 serin, rxpos, wire, inStack, delivered, sent, fault,
                 registered, stats, sentBy, call, sigalrm, fd, fdopen,
                 initret, clock, start_ticks, now_ticks, hsec, polling,
                 semret, polled>>

\* slip.c:466: nxsig_usleep(SLIP_WDDELAY) returns.
slip_txtask_usleep ==
  /\ pc["tx"] = "usleep"
  /\ pc' = [pc EXCEPT !["tx"] = "ifup"]
  /\ UNCHANGED <<bifup, txnodelay, waitsem, rxlen, rxbuf, txbuf, d_buf, d_len,
                 ch, x, serin, rxpos, wire, holder, inStack, delivered, sent,
                 fault, registered, stats, sentBy, call, sigalrm, fd, fdopen,
                 initret, clock, start_ticks, now_ticks, hsec, polling,
                 semret, polled>>

\* Where slip_txtask is when its slip_semtake (slip.c:462, 482) returns.
slip_semtake_return == [delay_take |-> "flag", poll_take |-> "poll_begin"]

\* The SIGALRM of slip_txavail (slip.c:876) reaches the transmitter task:
\* it ends nxsig_usleep (slip.c:466) early; it makes an nxsem_wait the task
\* is blocked in return -EINTR, which slip_semtake answers with another
\* wait (slip.c:208-220); anywhere else it has no effect on the task's
\* position.
slip_txtask_signal ==
  /\ sigalrm
  /\ pc["tx"] # "off"
  /\ sigalrm' = FALSE
  /\ IF pc["tx"] \in DOMAIN slip_semtake_return /\ ~slip_semtake_ready
     THEN /\ semret' = [semret EXCEPT !["tx"] = "EINTR"]
          /\ pc' = [pc EXCEPT !["tx"] =
                      IF slip_semtake_retries(semret'["tx"]) THEN @
                      ELSE slip_semtake_return[@]]
     ELSE /\ pc' = [pc EXCEPT !["tx"] = IF @ = "usleep" THEN "ifup" ELSE @]
          /\ UNCHANGED semret
  /\ UNCHANGED <<bifup, txnodelay, waitsem, rxlen, rxbuf, txbuf, d_buf, d_len,
                 ch, x, serin, rxpos, wire, holder, inStack, delivered, sent,
                 fault, registered, stats, sentBy, call, fd, fdopen, initret,
                 clock, start_ticks, now_ticks, hsec, polling, polled>>

\* Mutation: the poll is skipped whatever the state of the link.
slip_txtask_ifup_next_skip(up) == "delay_take"

\* slip.c:476, 509-510: with the interface up the task goes on to the poll,
\* otherwise to the next iteration of the loop.
slip_txtask_ifup_next(up) == IF up THEN "poll_take" ELSE "delay_take"

\* slip.c:476: is the interface up?
slip_txtask_ifup ==
  /\ pc["tx"] = "ifup"
  /\ pc' = [pc EXCEPT !["tx"] = slip_txtask_ifup_next(bifup)]
  /\ UNCHANGED <<bifup, txnodelay, waitsem, rxlen, rxbuf, txbuf, d_buf, d_len,
                 ch, x, serin, rxpos, wire, holder, inStack, delivered, sent,
                 fault, registered, stats, sentBy, call, sigalrm, fd, fdopen,
                 initret, clock, start_ticks, now_ticks, hsec, polling,
                 semret, polled>>

\* slip.c:482
slip_txtask_poll_take ==
  /\ pc["tx"] = "poll_take"
  /\ slip_semtake("tx")
  /\ pc' = [pc EXCEPT !["tx"] = "poll_begin"]
  /\ UNCHANGED <<bifup, txnodelay, rxlen, rxbuf, txbuf, d_buf, d_len, ch, x,
                 serin, rxpos, wire, inStack, delivered, sent, fault,
                 registered, stats, sentBy, call, sigalrm, fd, fdopen,
                 initret, clock, start_ticks, now_ticks, hsec, polling,
                 polled>>

\* Mutation: the poll runs on whatever buffer d_buf designated before.
slip_txtask_d_buf_kept == d_buf

\* slip.c:487: priv->dev.d_buf = priv->txbuf.
slip_txtask_d_buf == "tx"

\* slip.c:486-505: install txbuf and enter devif_timer or devif_poll.
slip_txtask_poll_begin ==
  /\ pc["tx"] = "poll_begin"
  /\ d_buf' = slip_txtask_d_buf
  /\ now_ticks' = clock_systimer
  /\ hsec' = slip_txtask_hsec(now_ticks', start_ticks)
  /\ polling' = slip_txtask_poll_fn(hsec')
  /\ polled' = NoPoll
  /\ inStack' = inStack \cup {"tx"}
  /\ pc' = [pc EXCEPT !["tx"] = "poll"]
  /\ UNCHANGED <<bifup, txnodelay, waitsem, rxlen, rxbuf, txbuf, d_len, ch, x,
                 serin, rxpos, wire, holder, delivered, sent, fault,
                 registered, stats, sentBy, call, sigalrm, fd, fdopen,
                 initret, clock, start_ticks, semret>>

\* slip.c:497-505: devif_timer / devif_poll returns.
slip_txtask_poll_done ==
  /\ pc["tx"] = "poll"
  /\ start_ticks' = IF polling = "devif_timer"
                      THEN slip_txtask_baseline(start_ticks, hsec)
                      ELSE start_ticks
  /\ polling' = "none"
  /\ polled' = NoPoll
  /\ inStack' = inStack \ {"tx"}
  /\ pc' = [pc EXCEPT !["tx"] = "poll_give"]
  /\ UNCHANGED <<bifup, txnodelay, waitsem, rxlen, rxbuf, txbuf, d_buf, d_len,
                 ch, x, serin, rxpos, wire, holder, delivered, sent, fault,
                 registered, stats, sentBy, call, sigalrm, fd, fdopen,
                 initret, clock, now_ticks, hsec, semret>>

\* slip.c:508
slip_txtask_poll_give ==
  /\ pc["tx"] = "poll_give"
  /\ slip_semgive
  /\ pc' = [pc EXCEPT !["tx"] = "delay_take"]
  /\ UNCHANGED <<bifup, txnodelay, rxlen, rxbuf, txbuf, d_buf, d_len, ch, x,
                 serin, rxpos, wire, inStack, delivered, sent, fault,
                 registered, stats, sentBy, call, sigalrm, fd, fdopen,
                 initret, clock, start_ticks, now_ticks, hsec, polling,
                 semret, polled>>

(***************************************************************************)
(* The interface callbacks; the stack calls them once the interface is     *)
(* registered.                                                             *)
(***************************************************************************)
\* No callback was called yet.
NoCall == [fn |-> "none", ret |-> 0, n |-> 0]

\* The record of one more call of callback fn, which returned ret.
Called(fn, ret) == [fn |-> fn, ret |-> ret, n |-> 1 - call.n]

\* slip.c:819
slip_ifup ==
  /\ registered
  /\ bifup' = TRUE
  /\ call' = Called("slip_ifup", 0)
  /\ UNCHANGED <<pc, txnodelay, waitsem, rxlen, rxbuf, txbuf, d_buf, d_len,
                 ch, x, serin, rxpos, wire, holder, inStack, delivered, sent,
                 fault, registered, stats, sentBy, sigalrm, fd, fdopen,
                 initret, clock, start_ticks, now_ticks, hsec, polling,
                 semret, polled>>

\* Mutation: slip_ifdown leaves the interface marked up.
slip_ifdown_bifup_true == TRUE

\* slip.c:845: priv->bifup = false.
slip_ifdown_bifup == FALSE

\* slip.c:839-847
slip_ifdown ==
  /\ registered
  /\ bifup' = slip_ifdown_bifup
  /\ call' = Called("slip_ifdown", 0)
  /\ UNCHANGED <<pc, txnodelay, waitsem, rxlen, rxbuf, txbuf, d_buf, d_len,
                 ch, x, serin, rxpos, wire, holder, inStack, delivered, sent,
                 fault, registered, stats, sentBy, sigalrm, fd, fdopen,
                 initret, clock, start_ticks, now_ticks, hsec, polling,
                 semret, polled>>

\* Mutation: the notification is acted on whatever the state of the link.
slip_txavail_acts_always(up) == TRUE

\* Mutation: the notification is dropped whatever the state of the link.
slip_txavail_acts_never(up) == FALSE

\* slip.c:871: the notification is acted on only if the interface is up.
slip_txavail_acts(up) == up

\* slip.c:871-879: txnodelay = true and SIGALRM to the transmitter task if
\* the interface is up; return OK.
slip_txavail ==
  /\ registered
  /\ txnodelay' = (IF slip_txavail_acts(bifup) THEN TRUE ELSE txnodelay)
  /\ sigalrm' = (IF slip_txavail_acts(bifup) THEN TRUE ELSE sigalrm)
  /\ call' = Called("slip_txavail", 0)
  /\ UNCHANGED <<pc, bifup, waitsem, rxlen, rxbuf, txbuf, d_buf, d_len, ch, x,
                 serin, rxpos, wire, holder, inStack, delivered, sent, fault,
                 registered, stats, sentBy, fd, fdopen, initret, clock,
                 start_ticks, now_ticks, hsec, polling, semret, polled>>

(***************************************************************************)
(* slip_initialize.                                                        *)
(***************************************************************************)
\* What nx_open may return: a descriptor, or a negated errno value.
nx_open_results == {3, -2}

\* What kthread_create may return: a task ID, or a negated errno value.
kthread_create_results == {7, -12}

\* Mutation: no result counts as a failure.
slip_initialize_failed_never(r) == FALSE

\* slip.c:990, 1010, 1025: a negative result is a failure.
slip_initialize_failed(r) == r < 0

\* slip.c:989-994: open the device; on failure return what nx_open
\* returned.
slip_initialize_open ==
  /\ pc["init"] = "open"
  /\ \E r \in nx_open_results :
       /\ fd' = r
       /\ IF slip_initialize_failed(r)
          THEN /\ initret' = r
               /\ pc' = [pc EXCEPT !["init"] = "done"]
               /\ UNCHANGED fdopen
          ELSE /\ fdopen' = (r >= 0)
               /\ pc' = [pc EXCEPT !["init"] = "create_rx"]
               /\ UNCHANGED initret
  /\ UNCHANGED <<bifup, txnodelay, waitsem, rxlen, rxbuf, txbuf, d_buf, d_len,
                 ch, x, serin, rxpos, wire, holder, inStack, delivered, sent,
                 fault, registered, stats, sentBy, call, sigalrm, clock,
                 start_ticks, now_ticks, hsec, polling, semret, polled>>

\* slip.c:998-1014: initialize the semaphore to 0 (already 0 in Init),
\* create the receiver task; on failure return what kthread_create returned.
slip_initialize_rx ==
  /\ pc["init"] = "create_rx"
  /\ \E r \in kthread_create_results :
       IF slip_initialize_failed(r)
       THEN /\ initret' = r
            /\ pc' = [pc EXCEPT !["init"] = "done"]
       ELSE /\ pc' = [pc EXCEPT !["init"] = "wait_rx", !["rx"] = "start"]
            /\ UNCHANGED initret
  /\ UNCHANGED <<bifup, txnodelay, waitsem, rxlen, rxbuf, txbuf, d_buf, d_len,
                 ch, x, serin, rxpos, wire, holder, inStack, delivered, sent,
                 fault, registered, stats, sentBy, call, sigalrm, fd, fdopen,
                 clock, start_ticks, now_ticks, hsec, polling, semret,
                 polled>>

\* slip.c:1018-1029: wait for the receiver, create the transmitter task; on
\* failure return what kthread_create returned.
slip_initialize_tx ==
  /\ pc["init"] = "wait_rx"
  /\ slip_semtake("init")
  /\ \E r \in kthread_create_results :
       IF slip_initialize_failed(r)
       THEN /\ initret' = r
            /\ pc' = [pc EXCEPT !["init"] = "done"]
       ELSE /\ pc' = [pc EXCEPT !["init"] = "wait_tx", !["tx"] = "start"]
            /\ UNCHANGED initret
  /\ UNCHANGED <<bifup, txnodelay, rxlen, rxbuf, txbuf, d_buf, d_len, ch, x,
                 serin, rxpos, wire, inStack, delivered, sent, fault,
                 registered, stats, sentBy, call, sigalrm, fd, fdopen, clock,
                 start_ticks, now_ticks, hsec, polling, polled>>

\* slip.c:1033: wait for the transmitter.
slip_initialize_wait_tx ==
  /\ pc["init"] = "wait_tx"
  /\ slip_semtake("init")
  /\ pc' = [pc EXCEPT !["init"] = "bump"]
  /\ UNCHANGED <<bifup, txnodelay, rxlen, rxbuf, txbuf, d_buf, d_len, ch, x,
                 serin, rxpos, wire, inStack, delivered, sent, fault,
                 registered, stats, sentBy, call, sigalrm, fd, fdopen,
                 initret, clock, start_ticks, now_ticks, hsec, polling,
                 polled>>

\* Mutation: slip_initialize goes on to register without the post.
slip_initialize_bump_none ==
  /\ pc["init"] = "bump"
  /\ pc' = [pc EXCEPT !["init"] = "register"]
  /\ UNCHANGED <<bifup, txnodelay, waitsem, rxlen, rxbuf, txbuf, d_buf, d_len,
                 ch, x, serin, rxpos, wire, holder, inStack, delivered, sent,
                 fault, registered, stats, sentBy, call, sigalrm, fd, fdopen,
                 initret, clock, start_ticks, now_ticks, hsec, polling,
                 semret, polled>>

\* slip.c:1037: bump the count so that the semaphore works as a mutex.
slip_initialize_bump ==
  /\ pc["init"] = "bump"
  /\ slip_semgive
  /\ pc' = [pc EXCEPT !["init"] = "register"]
  /\ UNCHANGED <<bifup, txnodelay, rxlen, rxbuf, txbuf, d_buf, d_len, ch, x,
                 serin, rxpos, wire, inStack, delivered, sent, fault,
                 registered, stats, sentBy, call, sigalrm, fd, fdopen,
                 initret, clock, start_ticks, now_ticks, hsec, polling,
                 semret, polled>>

\* slip.c:1041-1049: netdev_register, close the descriptor, return OK.
slip_initialize_register ==
  /\ pc["init"] = "register"
  /\ registered' = TRUE
  /\ fdopen' = FALSE
  /\ initret' = 0
  /\ pc' = [pc EXCEPT !["init"] = "done"]
  /\ UNCHANGED <<bifup, txnodelay, waitsem, rxlen, rxbuf, txbuf, d_buf, d_len,
                 ch, x, serin, rxpos, wire, holder, inStack, delivered, sent,
                 fault, stats, sentBy, call, sigalrm, fd, clock, start_ticks,
                 now_ticks, hsec, polling, semret, polled>>


(***************************************************************************)
(* The system: slip_initialize, the two tasks and the stack's calls.       *)
(***************************************************************************)
\* Serial input of the system runs: frames of both IP versions, an escaped
\* first byte, repeated ENDs and a frame with no leading END.
SysStreams ==
  { <<SLIP_END, 65, SLIP_END, SLIP_END, 96, SLIP_END>>,
    <<96, SLIP_ESC, SLIP_ESC_END, SLIP_END, SLIP_ESC_ESC, SLIP_END>> }

\* The state slip_initialize starts the tasks from: the structure zeroed,
\* the semaphore at 0 (slip.c:977-998).
Zeroed ==
  /\ bifup = FALSE
  /\ txnodelay = FALSE
  /\ waitsem = 0
  /\ rxlen = 0
  /\ rxbuf = ZeroBuf
  /\ txbuf = ZeroBuf
  /\ d_buf = "null"
  /\ d_len = 0
  /\ ch = 0
  /\ x = [t \in Tasks |-> XIdle]
  /\ rxpos = 0
  /\ wire = <<>>
  /\ holder = "none"
  /\ inStack = {}
  /\ delivered = <<>>
  /\ sent = <<>>
  /\ fault = FALSE
  /\ stats = NoStats
  /\ sentBy = <<>>
  /\ sigalrm = FALSE
  /\ TimerAt(0)
  /\ polling = "none"
  /\ semret = NoSemError
  /\ polled = NoPoll

Init ==
  /\ Zeroed
  /\ pc = [rx |-> "off", tx |-> "off", init |-> "open"]
  /\ registered = FALSE
  /\ call = NoCall
  /\ fd = 0
  /\ fdopen = FALSE
  /\ initret = 0
  /\ serin \in SysStreams

Receiver ==
  \/ slip_rxtask_getc
  \/ slip_rxtask_first
  \/ slip_receive_normal
  \/ slip_receive_escaped
  \/ slip_rxtask_take
  \/ slip_rxtask_input
  \/ slip_rxtask_input_done
  \/ slip_transmit_begin("rx")
  \/ slip_transmit_loop("rx")
  \/ slip_transmit_end("rx")
  \/ slip_rxtask_give

Transmitter ==
  \/ slip_txtask_delay_take
  \/ slip_txtask_flag
  \/ slip_txtask_clear
  \/ slip_txtask_delay_give
  \/ slip_txtask_usleep
  \/ slip_txtask_ifup
  \/ slip_txtask_poll_take
  \/ slip_txtask_poll_begin
  \/ slip_txpoll
  \/ slip_transmit_begin("tx")
  \/ slip_transmit_loop("tx")
  \/ slip_transmit_end("tx")
  \/ slip_txtask_poll_done
  \/ slip_txtask_poll_give

Initializer ==
  \/ slip_initialize_open
  \/ slip_initialize_rx
  \/ slip_initialize_tx
  \/ slip_initialize_wait_tx
  \/ slip_initialize_bump
  \/ slip_initialize_register
  \/ slip_rxtask_start
  \/ slip_txtask_start

Callbacks ==
  \/ slip_ifup
  \/ slip_ifdown
  \/ slip_txavail

\* Signal delivery by the kernel.
Signals == slip_txtask_signal

Next == Initializer \/ Receiver \/ Transmitter \/ Callbacks \/ Signals

Spec == Init /\ [][Next]_vars

(***************************************************************************)
(* The receiver alone on a given serial input: the interface is up, the    *)
(* transmitter sleeps.                                                     *)
(***************************************************************************)
\* A full buffer's worth of data bytes.
FullData == [i \in 1..BUFSIZE |-> IF i % 2 = 1 THEN 65 ELSE 96]

\* Every stream up to MaxStream bytes; a full buffer followed by every tail
\* up to MaxTail bytes, with and without the leading END;
\* END, BUFSIZE + 10 data bytes, END; and C0 45 00 00 14 C0.
RxStreams ==
  SeqsUpTo(Bytes, MaxStream)
    \cup {<<SLIP_END>> \o FullData \o t : t \in SeqsUpTo(Bytes, MaxTail)}
    \cup {FullData \o t : t \in SeqsUpTo(Bytes, MaxTail)}
    \cup {<<SLIP_END>> \o d \o <<SLIP_END>> :
            d \in SeqsOfLen(DataBytes, BUFSIZE + 10)}
    \cup {<<SLIP_END, 69, 0, 0, 20, SLIP_END>>}

\* The state after slip_initialize returned OK and slip_ifup was called.
\* slip_initialize has returned OK and slip_ifup was called once.
Started ==
  /\ registered = TRUE
  /\ fd \in {r \in nx_open_results : r >= 0}
  /\ fdopen = FALSE
  /\ initret = 0
  /\ bifup = TRUE
  /\ call = [fn |-> "slip_ifup", ret |-> 0, n |-> 1]
  /\ sigalrm = FALSE

InitRx ==
  /\ txnodelay = FALSE
  /\ waitsem = 1
  /\ rxlen = 0
  /\ rxbuf = ZeroBuf
  /\ txbuf = ZeroBuf
  /\ d_buf = "null"
  /\ d_len = 0
  /\ ch = 0
  /\ x = [t \in Tasks |-> XIdle]
  /\ rxpos = 0
  /\ wire = <<>>
  /\ holder = "none"
  /\ inStack = {}
  /\ delivered = <<>>
  /\ sent = <<>>
  /\ fault = FALSE
  /\ stats = NoStats
  /\ sentBy = <<>>
  /\ Started
  /\ semret = NoSemError
  /\ polled = NoPoll
  /\ TimerAt(0)
  /\ polling = "none"
  /\ pc = [rx |-> "getc", tx |-> "usleep", init |-> "done"]
  /\ serin \in RxStreams

SpecRx == InitRx /\ [][Receiver]_vars


(***************************************************************************)
(* The started link under fair scheduling: slip_initialize has returned,   *)
(* the interface is up, one frame with an escape arrives on the serial     *)
(* line, and the stack calls the callbacks at any time.  Each task that    *)
(* can take a step eventually takes one: the tasks are kernel threads,     *)
(* nxsig_usleep times out, stack calls and serial writes return.           *)
(***************************************************************************)
LiveStreams == {<<SLIP_END, 65, SLIP_ESC, SLIP_ESC_END, SLIP_END>>}

InitLive ==
  /\ txnodelay = FALSE
  /\ waitsem = 1
  /\ rxlen = 0
  /\ rxbuf = ZeroBuf
  /\ txbuf = ZeroBuf
  /\ d_buf = "null"
  /\ d_len = 0
  /\ ch = 0
  /\ x = [t \in Tasks |-> XIdle]
  /\ rxpos = 0
  /\ wire = <<>>
  /\ holder = "none"
  /\ inStack = {}
  /\ delivered = <<>>
  /\ sent = <<>>
  /\ fault = FALSE
  /\ stats = NoStats
  /\ sentBy = <<>>
  /\ Started
  /\ semret = NoSemError
  /\ polled = NoPoll
  /\ TimerAt(0)
  /\ polling = "none"
  /\ pc = [rx |-> "getc", tx |-> "delay_take", init |-> "done"]
  /\ serin \in LiveStreams

NextLive == Receiver \/ Transmitter \/ Callbacks \/ Signals

\* Each task takes a step when it can, and devif_timer / devif_poll return
\* after finitely many callbacks.
Fairness ==
  /\ WF_vars(Receiver)
  /\ WF_vars(Transmitter)
  /\ WF_vars(slip_txtask_poll_done)

SpecLive == InitLive /\ [][NextLive]_vars /\ Fairness

(***************************************************************************)
(* The transmit task against the clock: slip_initialize has returned, the  *)
(* interface is up, nothing arrives on the serial line, the system timer   *)
(* ticks at any time and the stack brings the interface down and up at any *)
(* time.  The timer starts at 0 or one tick before it wraps around.        *)
(***************************************************************************)
ClockStarts == {0, ClockMod - 1}

InitClock ==
  /\ txnodelay = FALSE
  /\ waitsem = 1
  /\ rxlen = 0
  /\ rxbuf = ZeroBuf
  /\ txbuf = ZeroBuf
  /\ d_buf = "null"
  /\ d_len = 0
  /\ ch = 0
  /\ x = [t \in Tasks |-> XIdle]
  /\ rxpos = 0
  /\ wire = <<>>
  /\ holder = "none"
  /\ inStack = {}
  /\ delivered = <<>>
  /\ sent = <<>>
  /\ fault = FALSE
  /\ stats = NoStats
  /\ sentBy = <<>>
  /\ Started
  /\ semret = NoSemError
  /\ polled = NoPoll
  /\ \E c \in ClockStarts : TimerAt(c)
  /\ polling = "none"
  /\ pc = [rx |-> "getc", tx |-> "delay_take", init |-> "done"]
  /\ serin = <<>>

NextClock == Transmitter \/ slip_ifup \/ slip_ifdown \/ clock_tick

SpecClock == InitClock /\ [][NextClock]_vars

(***************************************************************************)
(* The gate under fair scheduling: slip_initialize has returned, the        *)
(* interface is up, one frame arrives whose packet is IPv4, IPv6 or of no   *)
(* supported version, and slip_txtask starts with its baseline at the       *)
(* clock or a half second behind it, so that its first poll is the plain    *)
(* or the timer poll.  The stack calls slip_txavail at any time.  Besides   *)
(* the conditions of Fairness, a task waiting in slip_semtake obtains the   *)
(* semaphore if it is posted again and again: a post wakes up the waiter.   *)
(***************************************************************************)
GateStreams ==
  { <<SLIP_END, 65, SLIP_END>>,
    <<96, SLIP_ESC, SLIP_ESC_END, SLIP_END>>,
    <<16, SLIP_END>> }

GateClocks == {0, TICK_PER_HSEC}

InitGate ==
  /\ txnodelay = FALSE
  /\ waitsem = 1
  /\ rxlen = 0
  /\ rxbuf = ZeroBuf
  /\ txbuf = ZeroBuf
  /\ d_buf = "null"
  /\ d_len = 0
  /\ ch = 0
  /\ x = [t \in Tasks |-> XIdle]
  /\ rxpos = 0
  /\ wire = <<>>
  /\ holder = "none"
  /\ inStack = {}
  /\ delivered = <<>>
  /\ sent = <<>>
  /\ fault = FALSE
  /\ stats = NoStats
  /\ sentBy = <<>>
  /\ Started
  /\ semret = NoSemError
  /\ polled = NoPoll
  /\ clock \in GateClocks
  /\ start_ticks = 0
  /\ now_ticks = 0
  /\ hsec = 0
  /\ polling = "none"
  /\ pc = [rx |-> "getc", tx |-> "delay_take", init |-> "done"]
  /\ serin \in GateStreams

FairnessGate ==
  /\ Fairness
  /\ SF_vars(slip_rxtask_take)
  /\ SF_vars(slip_txtask_delay_take)
  /\ SF_vars(slip_txtask_poll_take)

NextGate == Receiver \/ Transmitter \/ slip_txavail \/ Signals

SpecGate == InitGate /\ [][NextGate]_vars /\ FairnessGate

(***************************************************************************)
(* The startup under fair scheduling: slip_initialize runs from its start  *)
(* with the two tasks it creates, one frame with an escape arrives on the  *)
(* serial line, and once the interface is registered the stack brings it   *)
(* up and down at any time.  slip_initialize and each task take a step     *)
(* when they can, and slip_initialize, waiting in slip_semtake, obtains    *)
(* the semaphore if it is posted again and again.                          *)
(***************************************************************************)
StartStreams == {<<SLIP_END, 65, SLIP_ESC, SLIP_ESC_END, SLIP_END>>}

InitStart ==
  /\ Zeroed
  /\ pc = [rx |-> "off", tx |-> "off", init |-> "open"]
  /\ registered = FALSE
  /\ call = NoCall
  /\ fd = 0
  /\ fdopen = FALSE
  /\ initret = 0
  /\ serin \in StartStreams

\* The steps of slip_initialize itself.
slip_initialize ==
  \/ slip_initialize_open
  \/ slip_initialize_rx
  \/ slip_initialize_tx
  \/ slip_initialize_wait_tx
  \/ slip_initialize_bump
  \/ slip_initialize_register

NextStart ==
  Initializer \/ Receiver \/ Transmitter \/ slip_ifup \/ slip_ifdown

FairnessStart ==
  /\ SF_vars(slip_initialize)
  /\ WF_vars(slip_rxtask_start)
  /\ WF_vars(slip_txtask_start)
  /\ WF_vars(Receiver)
  /\ WF_vars(Transmitter)

SpecStart == InitStart /\ [][NextStart]_vars /\ FairnessStart

(***************************************************************************)
(* Packet sequences: the receiver alone, link up, reads the frames of up   *)
(* to MaxPackets packets, one after the other.  The packets are a plain    *)
(* one, one that is a single END, one that ends in ESC and one of an       *)
(* unsupported version.                                                    *)
(***************************************************************************)
\* Most packets in one sequence.
MaxPackets == 2

SeqPackets ==
  {<<65>>, <<SLIP_END>>, <<96, SLIP_ESC>>, <<SLIP_ESC_END, 65>>}

PacketSeqs == SeqsUpTo(SeqPackets, MaxPackets) \ {<<>>}

\* END, the escaped body, END: what slip_transmit writes for packet p.
Encoded(p) == slip_transmit(Filled(ZeroBuf, p), Len(p))

RECURSIVE EncodedSeq(_)
EncodedSeq(ps) ==
  IF ps = <<>> THEN <<>> ELSE Encoded(Head(ps)) \o EncodedSeq(Tail(ps))

InitSeq ==
  /\ txnodelay = FALSE
  /\ waitsem = 1
  /\ rxlen = 0
  /\ rxbuf = ZeroBuf
  /\ txbuf = ZeroBuf
  /\ d_buf = "null"
  /\ d_len = 0
  /\ ch = 0
  /\ x = [t \in Tasks |-> XIdle]
  /\ rxpos = 0
  /\ wire = <<>>
  /\ holder = "none"
  /\ inStack = {}
  /\ delivered = <<>>
  /\ sent = <<>>
  /\ fault = FALSE
  /\ stats = NoStats
  /\ sentBy = <<>>
  /\ Started
  /\ semret = NoSemError
  /\ polled = NoPoll
  /\ TimerAt(0)
  /\ polling = "none"
  /\ pc = [rx |-> "getc", tx |-> "usleep", init |-> "done"]
  /\ serin \in {EncodedSeq(ps) : ps \in PacketSeqs}

SpecSeq == InitSeq /\ [][Receiver]_vars

(***************************************************************************)
(* The encoder alone: slip_transmit called (as from slip_txpoll, inside    *)
(* the transmitter's poll) on every packet that fits the buffer.           *)
(***************************************************************************)
InitEncode ==
  /\ \E p \in SeqsUpTo(Bytes, BUFSIZE) :
       /\ txbuf = Filled(ZeroBuf, p)
       /\ d_len = Len(p)
  /\ d_buf = "tx"
  /\ pc = [rx |-> "getc", tx |-> "x_begin", init |-> "done"]
  /\ waitsem = 0
  /\ holder = "tx"
  /\ inStack = {"tx"}
  /\ stats = NoStats
  /\ sentBy = <<>>
  /\ Started
  /\ semret = NoSemError
  /\ polled = NoPoll
  /\ TimerAt(0)
  /\ polling = "devif_poll"
  /\ txnodelay = FALSE
  /\ rxlen = 0
  /\ rxbuf = ZeroBuf
  /\ ch = 0
  /\ x = [t \in Tasks |-> XIdle]
  /\ serin = <<>>
  /\ rxpos = 0
  /\ wire = <<>>
  /\ delivered = <<>>
  /\ sent = <<>>
  /\ fault = FALSE

Encoder ==
  \/ slip_transmit_begin("tx")
  \/ slip_transmit_loop("tx")
  \/ slip_transmit_end("tx")

SpecEncode == InitEncode /\ [][Encoder]_vars

(***************************************************************************)
(* The round trip: the serial line is looped back, the transmitter has     *)
(* sent one packet of at most PKTSIZE bytes and released the gate, the     *)
(* receiver has not read a byte of it yet.                                 *)
(***************************************************************************)
InitLoop ==
  /\ \E p \in SeqsUpTo(Bytes, PKTSIZE) :
       /\ txbuf = Filled(ZeroBuf, p)
       /\ d_len = Len(p)
       /\ sent = <<p>>
       /\ wire = slip_transmit(txbuf, d_len)
  /\ serin = wire
  /\ d_buf = "tx"
  /\ pc = [rx |-> "getc", tx |-> "delay_take", init |-> "done"]
  /\ waitsem = 1
  /\ holder = "none"
  /\ inStack = {}
  /\ stats = [NoStats EXCEPT !.tx_packets = 1, !.tx_done = 1]
  /\ sentBy = <<"tx">>
  /\ Started
  /\ semret = NoSemError
  /\ polled = NoPoll
  /\ TimerAt(0)
  /\ polling = "none"
  /\ txnodelay = TRUE
  /\ rxlen = 0
  /\ rxbuf = ZeroBuf
  /\ ch = 0
  /\ x = [t \in Tasks |-> XIdle]
  /\ rxpos = 0
  /\ delivered = <<>>
  /\ fault = FALSE

SpecLoop == InitLoop /\ [][Receiver]_vars


(***************************************************************************)
(*                              Properties                                 *)
(***************************************************************************)
\* The receiver is blocked in a read with the serial input used up.
RxBlocked == rxpos = Len(serin) /\ pc["rx"] \in {"getc", "recv", "esc"}

\* The bytes read so far.
Consumed == SubSeq(serin, 1, rxpos)

\* Byte stuffing as RFC 1055 defines it, byte by byte.
RECURSIVE Stuff(_)
Stuff(p) ==
  IF p = <<>> THEN <<>>
  ELSE (IF Head(p) = SLIP_END THEN <<SLIP_ESC, SLIP_ESC_END>>
        ELSE IF Head(p) = SLIP_ESC THEN <<SLIP_ESC, SLIP_ESC_ESC>>
        ELSE <<Head(p)>>) \o Stuff(Tail(p))

\* C1: at most one task is inside a stack call (ipv4_input, ipv6_input,
\* devif_timer, devif_poll) at any instant, and a task inside a stack call
\* holds the gate: it is the task whose slip_semtake returned last, and the
\* semaphore count is 0.
C1_MutualExclusion ==
  /\ Cardinality(inStack) <= 1
  /\ \A t \in inStack : holder = t /\ waitsem = 0

\* The receiver is inside ipv4_input or ipv6_input while the transmitter
\* waits for the gate to start its poll.
C1_Witness ==
  /\ inStack = {"rx"}
  /\ pc["tx"] = "poll_take"
  /\ waitsem = 0

\* C2 as stated: once the receiver has read the whole encoding of the packet
\* sent (any length from 0 to PKTSIZE), exactly one packet was decoded and
\* it equals the packet sent.
C2_RoundTripFromZero ==
  RxBlocked => (Len(delivered) = 1 /\ delivered[1].pkt = sent[1])

\* C2 amended: for a packet of 1 to PKTSIZE bytes the receiver decodes
\* exactly one packet from its encoding, equal to the packet sent byte for
\* byte; for the packet of length 0 (encoded END END) it decodes none.  At
\* no time is a second or a different packet decoded.
C2_RoundTrip ==
  /\ Len(delivered) <= 1
  /\ \A i \in DOMAIN delivered : delivered[i].pkt = sent[1]
  /\ RxBlocked => Len(delivered) = (IF Len(sent[1]) >= 1 THEN 1 ELSE 0)

\* A packet made of an END and an ESC byte has come back unchanged.
C2_Witness ==
  /\ RxBlocked
  /\ Len(sent[1]) >= 2
  /\ sent[1][1] = SLIP_END
  /\ sent[1][2] = SLIP_ESC
  /\ Len(delivered) = 1
  /\ delivered[1].pkt = sent[1]

\* C3 as stated: a byte of the encoder's output is END or ESC only as the
\* second byte of an ESC/ESC_END or ESC/ESC_ESC pair.
C3_NoLiteralEndOrEsc ==
  \A i \in DOMAIN wire :
    wire[i] \in {SLIP_END, SLIP_ESC} =>
      /\ i > 1
      /\ wire[i - 1] = SLIP_ESC
      /\ wire[i] \in {SLIP_ESC_END, SLIP_ESC_ESC}

\* C3 amended: the only END bytes of the encoder's output are the leading
\* and the trailing frame delimiter, and every ESC byte of the output is the
\* first byte of an ESC/ESC_END or ESC/ESC_ESC pair.
C3_Escaping ==
  /\ \A i \in DOMAIN wire :
       wire[i] = SLIP_END => (i = 1 \/ (i = Len(wire) /\ pc["tx"] = "poll"))
  /\ \A i \in DOMAIN wire :
       wire[i] = SLIP_ESC =>
         /\ i < Len(wire)
         /\ wire[i + 1] \in {SLIP_ESC_END, SLIP_ESC_ESC}
  /\ pc["tx"] = "poll" =>
       /\ Len(wire) >= 2
       /\ wire[1] = SLIP_END
       /\ wire[Len(wire)] = SLIP_END

\* The encoder has finished a packet holding both an END and an ESC byte.
C3_Witness ==
  /\ pc["tx"] = "poll"
  /\ \E i, j \in DOMAIN sent[1] :
       sent[1][i] = SLIP_END /\ sent[1][j] = SLIP_ESC

\* C4: when slip_transmit returns, the bytes written are END ++ stuff(P) ++
\* END, of length len(P) + 2 + the number of END and ESC bytes of P; while
\* it scans, the bytes written followed by the pending run of literal bytes
\* are END ++ stuff(the bytes scanned): batching neither drops, duplicates
\* nor reorders a byte.
C4_EncoderResult ==
  /\ pc["tx"] = "poll" =>
       /\ wire = <<SLIP_END>> \o Stuff(sent[1]) \o <<SLIP_END>>
       /\ Len(wire) = Len(sent[1]) + 2
            + Cardinality({i \in DOMAIN sent[1] :
                             sent[1][i] \in {SLIP_END, SLIP_ESC}})
  /\ pc["tx"] = "x_loop" =>
       wire \o SubSeq(sent[1], x["tx"].start + 1, x["tx"].start + x["tx"].len)
         = <<SLIP_END>> \o Stuff(SubSeq(sent[1], 1, x["tx"].src))

\* The encoder has finished a packet that fills the buffer, with a run
\* flushed before an escape and a run flushed after the scan.
C4_Witness ==
  /\ pc["tx"] = "poll"
  /\ Len(sent[1]) = BUFSIZE
  /\ sent[1][1] = 65
  /\ sent[1][2] = SLIP_END
  /\ sent[1][BUFSIZE] = 96


\* A stream END, BUFSIZE + 10 bytes that are neither END nor ESC, END.
CapacityStream(s) ==
  /\ Len(s) = BUFSIZE + 12
  /\ s[1] = SLIP_END
  /\ s[Len(s)] = SLIP_END
  /\ \A i \in 2..(Len(s) - 1) : s[i] \notin {SLIP_END, SLIP_ESC}

\* C5: on END, (MTU + 2 + 10) bytes that are neither END nor ESC, END, the
\* receiver hands over exactly one packet, made of the first MTU + 2 of
\* those bytes in order; the other bytes are dropped while the scan goes on
\* to the END (the length stays MTU + 2), and nothing is written outside
\* the buffer.
C5_CapacityTruncation ==
  CapacityStream(serin) =>
    /\ ~fault
    /\ Len(delivered) <= 1
    /\ \A i \in DOMAIN delivered :
         delivered[i].pkt = SubSeq(serin, 2, BUFSIZE + 1)
    /\ (pc["rx"] = "recv" /\ rxpos > BUFSIZE + 1) =>
         /\ rxlen = BUFSIZE
         /\ Prefix(rxbuf, rxlen) = SubSeq(serin, 2, BUFSIZE + 1)
    /\ RxBlocked => (Len(delivered) = 1 /\ pc["rx"] = "getc")

\* The truncated packet of a capacity stream was handed over: the stream
\* is used up and its bytes differ on both sides of the cut.
C5_Witness ==
  /\ CapacityStream(serin)
  /\ serin[BUFSIZE + 1] # serin[BUFSIZE + 2]
  /\ RxBlocked
  /\ Len(delivered) = 1
  /\ Len(delivered[1].pkt) = BUFSIZE

\* C6: in every state, whatever the input stream, 0 <= rxlen <= MTU + 2 and
\* no write into rxbuf was at an index outside 0 .. MTU + 1.
C6_BufferBound ==
  /\ rxlen >= 0
  /\ rxlen <= PKTSIZE + 2
  /\ ~fault

\* The buffer is full, the frame had no leading END, and a byte that
\* followed an ESC was dropped.
C6_Witness ==
  /\ rxlen = PKTSIZE + 2
  /\ pc["rx"] = "recv"
  /\ serin[1] # SLIP_END
  /\ rxpos = PKTSIZE + 4
  /\ serin[rxpos - 1] = SLIP_ESC
  /\ delivered = <<>>

\* C7: as long as every byte read was END, no packet was decoded: RxTask
\* is still reading (it has not left assembly), the accumulated length is 0,
\* the gate was not acquired and the stack was not called.
C7_IdleSuppression ==
  (\A i \in 1..rxpos : serin[i] = SLIP_END) =>
    /\ delivered = <<>>
    /\ pc["rx"] \in {"getc", "first", "recv"}
    /\ rxlen = 0
    /\ holder = "none"
    /\ waitsem = 1
    /\ inStack = {}
    /\ wire = <<>>

\* MaxStream consecutive END bytes were read, RxTask is in slip_receive.
C7_Witness ==
  /\ rxpos = MaxStream
  /\ \A i \in 1..rxpos : serin[i] = SLIP_END
  /\ pc["rx"] = "recv"

\* The decoder reads byte ch' in the Escaped state.
EscapedRead == pc["rx"] = "esc" /\ rxpos' = rxpos + 1

\* The input C0 DB DC C0 decodes to exactly one packet, <<C0>>.
EscapedEndExample ==
  (serin = <<192, 219, 220, 192>> /\ RxBlocked) =>
    (Len(delivered) = 1 /\ delivered[1].pkt = <<192>>)

\* C8 as stated: in the Escaped state ESC_END always appends one END byte
\* and ESC_ESC always appends one ESC byte (the length grows by one), and
\* the decoder is back in the Normal state; C0 DB DC C0 decodes to <<C0>>.
C8_EscapeAlwaysAppends ==
  /\ [][(EscapedRead /\ ch' \in {SLIP_ESC_END, SLIP_ESC_ESC}) =>
          /\ rxlen' = rxlen + 1
          /\ rxbuf' = [rxbuf EXCEPT ![rxlen] =
                         IF ch' = SLIP_ESC_END THEN SLIP_END ELSE SLIP_ESC]
          /\ pc'["rx"] = "recv"]_vars
  /\ []EscapedEndExample

\* C8 amended: in the Escaped state, while the buffer is not full
\* (rxlen < MTU + 2), ESC_END appends exactly one END byte and ESC_ESC
\* exactly one ESC byte, the ESC itself not being stored; when the buffer is
\* full the decoded byte is dropped and the buffer and its length are
\* unchanged; either way the decoder is back in the Normal state.  The
\* input C0 DB DC C0 decodes to exactly one packet, <<C0>>.
C8_EscapeDecoding ==
  /\ [][(EscapedRead /\ ch' \in {SLIP_ESC_END, SLIP_ESC_ESC}) =>
          /\ IF rxlen < PKTSIZE + 2
             THEN /\ rxlen' = rxlen + 1
                  /\ rxbuf' = [rxbuf EXCEPT ![rxlen] =
                                 IF ch' = SLIP_ESC_END THEN SLIP_END
                                 ELSE SLIP_ESC]
             ELSE /\ rxlen' = rxlen
                  /\ rxbuf' = rxbuf
          /\ pc'["rx"] = "recv"]_vars
  /\ []EscapedEndExample

\* C0 DB DC C0 was decoded to the one-byte packet <<C0>>.
C8_Witness ==
  /\ serin = <<192, 219, 220, 192>>
  /\ RxBlocked
  /\ Len(delivered) = 1
  /\ delivered[1].pkt = <<192>>

\* C9: a byte read in the Escaped state that is neither ESC_END nor ESC_ESC
\* (END and ESC included) is appended as it is if the buffer has room and
\* dropped otherwise; the decoder returns to Normal, the packet is not
\* completed by that byte and nothing faults.  END ESC 41 END decodes to
\* the packet <<41>>, and ESC 41 END to a packet containing 41.
C9_Leniency ==
  /\ [][(EscapedRead /\ ch' \notin {SLIP_ESC_END, SLIP_ESC_ESC}) =>
          /\ IF rxlen < PKTSIZE + 2
             THEN /\ rxlen' = rxlen + 1
                  /\ rxbuf' = [rxbuf EXCEPT ![rxlen] = ch']
             ELSE /\ rxlen' = rxlen
                  /\ rxbuf' = rxbuf
          /\ pc'["rx"] = "recv"
          /\ delivered' = delivered
          /\ ~fault']_vars
  /\ []((serin = <<192, 219, 65, 192>> /\ RxBlocked) =>
          (Len(delivered) = 1 /\ delivered[1].pkt = <<65>>))
  /\ []((serin = <<219, 65, 192>> /\ RxBlocked) =>
          /\ Len(delivered) = 1
          /\ \E i \in DOMAIN delivered[1].pkt : delivered[1].pkt[i] = 65)

\* END ESC END END was decoded to the packet <<C0>>: the END after the ESC
\* was stored and did not end the packet.
C9_Witness ==
  /\ serin = <<192, 219, 192, 192>>
  /\ RxBlocked
  /\ Len(delivered) = 1
  /\ delivered[1].pkt = <<192>>

UnsupportedStep ==
  /\ pc["rx"] = "input"
  /\ pc'["rx"] # "input"
  /\ IPVersion(rxbuf[0]) \notin {4, 6}

\* A packet of version 13 followed by a packet of version 4.
UnsupportedThenIPv4 == <<SLIP_ESC_END, SLIP_END, 65, SLIP_END>>

\* C11: a packet whose version field is neither 4 nor 6 increments the
\* receive-error count exactly once (and that count changes at no other
\* step), is passed to no stack input function, causes no transmission on
\* the serial line, and the gate is released right afterwards, so that the
\* next packet is processed normally.
C11_UnsupportedVersion ==
  [][ /\ UnsupportedStep =>
           /\ stats' = [stats EXCEPT !.rx_errors = @ + 1, !.rx_packets = @ + 1]
           /\ delivered'[Len(delivered')].to = "error"
           /\ inStack' = inStack
           /\ "rx" \notin inStack'
           /\ wire' = wire
           /\ sent' = sent
           /\ pc'["rx"] = "give"
           /\ holder' = "rx"
      /\ stats'.rx_errors # stats.rx_errors => UnsupportedStep
      /\ pc["rx"] = "give" =>
           /\ pc'["rx"] = "getc"
           /\ waitsem' = waitsem + 1
           /\ wire' = wire
           /\ sent' = sent
           /\ stats' = stats
      /\ (serin' = UnsupportedThenIPv4 /\ RxBlocked') =>
           /\ Len(delivered') = 2
           /\ delivered'[1] = [pkt |-> <<SLIP_ESC_END>>, to |-> "error",
                               gate |-> "rx"]
           /\ delivered'[2] = [pkt |-> <<65>>, to |-> "ipv4", gate |-> "rx"]
           /\ stats'.rx_errors = 1
    ]_vars

C11_Witness ==
  /\ serin = UnsupportedThenIPv4
  /\ RxBlocked
  /\ stats.rx_errors = 1
  /\ Len(delivered) = 2
  /\ delivered[1].to = "error"
  /\ waitsem = 1
  /\ wire = <<>>

\* The frame of packet p on the serial line.
Frame(p) == <<SLIP_END>> \o Stuff(p) \o <<SLIP_END>>

\* The frames of the first n packets slip_transmit was started on, one
\* after the other.
RECURSIVE Frames(_)
Frames(n) == IF n = 0 THEN <<>> ELSE Frames(n - 1) \o Frame(sent[n])

IsPrefix(a, b) == Len(a) <= Len(b) /\ SubSeq(b, 1, Len(a)) = a

\* The task is inside slip_transmit.
Transmitting(t) == pc[t] \in {"x_begin", "x_loop"}

\* slip_rxtask is between handing a packet to the stack and the end of the
\* reply it transmits inline.
Replying ==
  pc["rx"] \in {"input", "ipv4", "ipv6", "x_begin", "x_loop", "give"}

\* Frames are on the line whole and in the order their transmission began;
\* only the last one may still be incomplete.
WholeFrames ==
  /\ Len(sentBy) = Len(sent)
  /\ IsPrefix(wire, Frames(Len(sent)))
  /\ Len(sent) > 0 => Len(wire) > Len(Frames(Len(sent) - 1))
  /\ (\A t \in Tasks : ~Transmitting(t)) => wire = Frames(Len(sent))

\* C12: a reply the stack leaves in the receive buffer is written to the
\* serial line inside the gate acquisition in which the packet was handed
\* to the stack, hence before any frame of a poll of slip_txtask that takes
\* the gate later; frames are on the line whole and in the order their
\* transmission began, and a frame is written only by the task that holds
\* the gate.
C12_FrameAtomicity ==
  [][ /\ \A t \in Tasks : Transmitting(t)' => holder' = t /\ waitsem' = 0
      /\ Replying' => holder' = "rx" /\ waitsem' = 0
      /\ WholeFrames'
      /\ IsPrefix(wire, wire')
      /\ (pc["tx"] = "poll_take" /\ pc'["tx"] = "poll_begin") =>
           /\ ~Replying
           /\ wire = Frames(Len(sent))
    ]_vars

\* A reply of slip_rxtask and a frame of a later poll are on the line,
\* whole and one after the other.
C12_Witness ==
  /\ sentBy = <<"rx", "tx">>
  /\ wire = Frame(sent[1]) \o Frame(sent[2])
  /\ sent[1] = <<65, SLIP_END>>
  /\ pc["tx"] = "poll"

\* slip_rxtask or slip_receive puts a received byte into the receive
\* buffer in this step (slip.c:709-710, 612-619, 634-637).
RxAppends ==
  \/ pc["rx"] \in {"recv", "esc"} /\ rxlen' > rxlen
  \/ pc["rx"] = "first" /\ pc'["rx"] = "recv" /\ ch # SLIP_END

\* slip_rxtask hands a packet to the packet-processing step in this step.
RxHandsOver == delivered' # delivered

\* C13: in every state in which the up flag is false, wherever in the byte
\* stream slip_ifdown was called, slip_rxtask appends nothing to the
\* receive buffer and hands no packet to the stack.
C13_DownDiscards == [][~bifup => ~RxAppends /\ ~RxHandsOver]_vars

\* slip_txtask enters devif_timer or devif_poll in this step (slip.c:497,
\* 504).
TxStartsPoll == "tx" \notin inStack /\ "tx" \in inStack'

\* C14: slip_txtask never starts a devif_timer or devif_poll in a state in
\* which the up flag is false, however slip_ifdown interleaves with its test
\* of the flag and its wait for the gate.
C14_NoPollWhileDown == [][TxStartsPoll => bifup]_vars

\* The stack calls slip_txavail in this step.
TxavailCall == call' # call /\ call'.fn = "slip_txavail"

\* C15 as stated: every call of slip_txavail sets txnodelay, sends SIGALRM
\* to the transmitter task and returns OK.
C15_EveryCallNotifies ==
  [][TxavailCall => txnodelay' /\ sigalrm' /\ call'.ret = 0]_vars

\* C15, amended: every call of slip_txavail returns OK, and every call made
\* while the up flag is true sets txnodelay and sends SIGALRM to the
\* transmitter task.
C15_CallWhileUpNotifies ==
  [][TxavailCall =>
       /\ call'.ret = 0
       /\ bifup => txnodelay' /\ sigalrm'
    ]_vars

\* slip_txavail was called with the link up while the transmitter task was
\* in its sleep with the flag clear.
C15_Witness ==
  /\ call.fn = "slip_txavail"
  /\ bifup
  /\ txnodelay
  /\ sigalrm
  /\ pc["tx"] = "usleep"

\* slip_txtask holds the gate and is about to call devif_timer.
PollBegins == pc["tx"] = "poll_begin"

\* C16: under fair scheduling, once slip_txavail was called with the link
\* up, slip_txtask acquires the gate and starts a poll after the call,
\* unless the link goes down; this holds wherever the call falls between
\* the task's read of txnodelay and its clearing of it.
C16_SendOnDemand ==
  (call.fn = "slip_txavail" /\ bifup) ~> (PollBegins \/ ~bifup)

\* slip_txavail was called with the link up, the transmitter task has
\* cleared the flag the call set, taken the gate, and is about to poll.
C16_Witness ==
  /\ call.fn = "slip_txavail"
  /\ bifup
  /\ ~txnodelay
  /\ PollBegins
  /\ holder = "tx"

\* slip_initialize has returned.
Returned == pc["init"] = "done"

\* The task was created and runs.
Running(t) == pc[t] # "off"

\* C17: slip_initialize returns OK or a negative status; if the device
\* cannot be opened it returns the negative result of the open, no task is
\* started and the interface is not registered; if a task cannot be created
\* it returns the negative result of the creation and the interface is not
\* registered; it returns OK only after the device was opened, both tasks
\* were started and the interface was registered, and the interface is
\* registered at no other time.
C17_InitStatus ==
  /\ ~Returned => ~registered
  /\ Returned =>
       /\ initret = 0 \/ initret < 0
       /\ fd < 0 =>
            /\ initret = fd
            /\ ~Running("rx")
            /\ ~Running("tx")
            /\ ~registered
       /\ (fd >= 0 /\ ~(Running("rx") /\ Running("tx"))) =>
            /\ initret \in {r \in kthread_create_results : r < 0}
            /\ ~registered
       /\ initret < 0 => ~registered
       /\ initret = 0 =>
            /\ fd >= 0
            /\ Running("rx")
            /\ Running("tx")
            /\ registered

\* The transmitter task could not be created: slip_initialize has returned
\* the negative status, with the receiver task started and nothing
\* registered.
C17_Witness ==
  /\ Returned
  /\ initret \in {r \in kthread_create_results : r < 0}
  /\ fd >= 0
  /\ Running("rx")
  /\ ~Running("tx")
  /\ ~registered

\* C18: after slip_initialize has returned a failure, the resources it had
\* started are released: no task of the link runs and the descriptor it
\* opened is closed.
C18_CleanupOnFailure ==
  (Returned /\ initret < 0) =>
    /\ ~fdopen
    /\ ~Running("rx")
    /\ ~Running("tx")

\* The stack calls callback fn in this step.
CallOf(fn) == call' # call /\ call'.fn = fn

\* C19: the up flag is false from initialization until the first call of
\* slip_ifup (while nothing is registered, and while no callback was
\* called); it changes only in a call of slip_ifup, which makes it true, or
\* of slip_ifdown, which makes it false; no step of a task, of the encoder,
\* of the decoder or of slip_txavail changes it.
C19_UpFlagFrame ==
  [][ /\ bifup' # bifup => CallOf("slip_ifup") \/ CallOf("slip_ifdown")
      /\ CallOf("slip_ifup") => bifup'
      /\ CallOf("slip_ifdown") => ~bifup'
      /\ (~registered \/ call.fn = "none") => ~bifup
      /\ (~registered' \/ call'.fn = "none") => ~bifup'
    ]_vars

\* The link was brought up, packets went through, and slip_ifdown has
\* brought it down again.
C19_Witness ==
  /\ call.fn = "slip_ifdown"
  /\ ~bifup
  /\ Len(delivered) > 0
  /\ Len(sent) > 0

\* The stack or the encoder runs on behalf of the task.
StackOrEncoder(t) == t \in inStack \/ Transmitting(t)

\* Each task is on its own buffer: d_buf designates the buffer of the task
\* the stack or the encoder runs for, and the encoder reads that buffer.
OwnBuffers ==
  /\ StackOrEncoder("rx") => d_buf = "rx"
  /\ StackOrEncoder("tx") => d_buf = "tx"
  /\ \A t \in Tasks : pc[t] = "x_loop" => x[t].buf = t
  /\ ~(StackOrEncoder("rx") /\ StackOrEncoder("tx"))

\* C20: whenever the stack or the encoder runs on behalf of slip_rxtask
\* d_buf designates rxbuf, whenever it runs on behalf of slip_txtask d_buf
\* designates txbuf, and never both at once; txbuf is written only inside
\* the transmitter's poll and rxbuf only by the decoder or inside the
\* receiver's stack call; slip_rxtask appends no received byte while rxbuf
\* is used by a stack call or an inline transmission.
C20_BufferOwnership ==
  [][ /\ OwnBuffers
      /\ OwnBuffers'
      /\ txbuf' # txbuf => "tx" \in inStack /\ ~StackOrEncoder("rx")
      /\ rxbuf' # rxbuf =>
           \/ pc["rx"] \in {"first", "recv", "esc"} /\ pc'["tx"] = pc["tx"]
           \/ "rx" \in inStack /\ ~StackOrEncoder("tx")
      /\ RxAppends => ~StackOrEncoder("rx") /\ x["rx"] = XIdle
    ]_vars

\* The transmitter encodes a packet from txbuf while the receiver is
\* assembling one in rxbuf.
C20_Witness ==
  /\ pc["tx"] = "x_loop"
  /\ x["tx"].buf = "tx"
  /\ d_buf = "tx"
  /\ pc["rx"] = "recv"
  /\ rxlen > 0

\* C21: slip_transmit called on a packet of length 0 writes exactly two
\* bytes to the serial line, END and END: nothing before the call has
\* begun, the first END once the scan is reached, both once it has returned.
C21_ZeroLengthEncode ==
  /\ slip_transmit(txbuf, 0) = <<SLIP_END, SLIP_END>>
  /\ (sent = <<>> /\ d_len = 0) => wire = <<>>
  /\ (sent = << <<>> >> /\ pc["tx"] = "x_loop") => wire = <<SLIP_END>>
  /\ (sent = << <<>> >> /\ pc["tx"] = "poll") => wire = <<SLIP_END, SLIP_END>>

\* slip_transmit has returned from a packet of length 0.
C21_Witness ==
  /\ sent = << <<>> >>
  /\ d_len = 0
  /\ pc["tx"] = "poll"
  /\ Len(wire) = 2
  /\ stats.tx_done = 1

\* ipv4_input or ipv6_input returns to slip_rxtask in this step.
InputReturns == pc["rx"] \in {"ipv4", "ipv6"} /\ pc'["rx"] # pc["rx"]

\* slip_rxtask enters slip_transmit in this step.
RxEncodes == pc["rx"] = "x_begin" /\ pc'["rx"] = "x_loop"

\* C22: when an input function returns, slip_rxtask calls slip_transmit if
\* and only if the stack left d_len > 0, once, on the receive buffer and
\* with the gate held from the hand-over to the end of the frame; when the
\* stack left d_len = 0 it goes straight to the release of the gate and
\* writes nothing; it writes to the line and starts a frame at no other
\* time.
C22_InlineReply ==
  [][ /\ InputReturns =>
           /\ d_len' > 0 => pc'["rx"] = "x_begin"
           /\ d_len' = 0 => pc'["rx"] = "give"
           /\ wire' = wire /\ sent' = sent
           /\ holder' = "rx"
      /\ pc'["rx"] = "x_begin" => InputReturns /\ d_len' > 0
      /\ RxEncodes =>
           /\ sent' = Append(sent, Prefix(rxbuf, d_len))
           /\ sentBy' = Append(sentBy, "rx")
           /\ x'["rx"].buf = "rx"
           /\ d_buf = "rx"
           /\ holder = "rx" /\ waitsem = 0
      /\ sent' # sent => RxEncodes
      /\ wire' # wire => Transmitting("rx") /\ holder = "rx" /\ waitsem = 0
      /\ (Transmitting("rx") /\ ~Transmitting("rx")') =>
           /\ pc'["rx"] = "give"
           /\ holder' = "rx"
           /\ wire' = Frames(Len(sent))
    ]_vars

\* Two packets were handed over; the stack answered the first and left
\* nothing for the second: one frame is on the line.
C22_Witness ==
  /\ Len(delivered) = 2
  /\ delivered[1].to = "ipv4"
  /\ delivered[2].to = "ipv6"
  /\ pc["rx"] = "give"
  /\ d_len = 0
  /\ sent = << <<65, SLIP_END>> >>
  /\ wire = Frame(sent[1])

\* The non-empty packets of at most PKTSIZE bytes.
Packets == SeqsUpTo(Bytes, PKTSIZE) \ {<<>>}

\* The packets handed to the packet-processing step so far, in order.
DeliveredPackets == [i \in DOMAIN delivered |-> delivered[i].pkt]

\* With its leading END, the escaped body of every packet decodes to the
\* packet.
LeadingEndDecodes ==
  \A P \in Packets :
    (serin = Frame(P) /\ RxBlocked) => DeliveredPackets = <<P>>

\* C23: with the link up and no assembly in progress, the escaped body of
\* a packet followed by END, with no leading END, decodes to that packet,
\* as it does with the leading END; bodies whose first byte is ESC
\* included.
C23_MissingLeadingEnd ==
  \A P \in Packets :
    (serin = Stuff(P) \o <<SLIP_END>> /\ RxBlocked) => DeliveredPackets = <<P>>

\* C24: with the link up, the frames of a sequence of non-empty packets,
\* one after the other, hand exactly those packets to the
\* packet-processing step, in order and each once: at every moment the
\* packets handed over are a prefix of the sequence, each with the gate
\* held, and all of them once the stream is read; the length restarts at 0
\* at the END that opens each frame.
C24_PacketSequence ==
  \A ps \in PacketSeqs :
    serin = EncodedSeq(ps) =>
      /\ IsPrefix(DeliveredPackets, ps)
      /\ \A i \in DOMAIN delivered : delivered[i].gate = "rx"
      /\ RxBlocked => DeliveredPackets = ps
      /\ (pc["rx"] = "recv" /\ ch = SLIP_END) => rxlen = 0

\* Two packets went through, the second shorter than the first and after
\* a reply of the stack had overwritten the receive buffer.
C24_Witness ==
  /\ serin = EncodedSeq(<< <<96, SLIP_ESC>>, <<SLIP_END>> >>)
  /\ RxBlocked
  /\ DeliveredPackets = << <<96, SLIP_ESC>>, <<SLIP_END>> >>
  /\ Len(sent) = 1

\* slip_txtask takes a step from position p in this step.
TxLeaves(p) == pc["tx"] = p /\ pc'["tx"] # p

\* C25: slip_txtask reads txnodelay with the gate held; if it is set it
\* clears it, releases the gate and goes to the up check without sleeping;
\* otherwise it leaves it as it is, releases the gate and sleeps; it holds
\* the gate neither in the sleep nor at the up check.
C25_DelayDecision ==
  [][ /\ pc["tx"] \in {"flag", "clear", "give_sleep", "give_go"} =>
           holder = "tx" /\ waitsem = 0
      /\ pc["tx"] \in {"usleep", "ifup"} => holder # "tx"
      /\ TxLeaves("flag") =>
           /\ pc'["tx"] = IF txnodelay THEN "clear" ELSE "give_sleep"
           /\ txnodelay' = txnodelay
      /\ TxLeaves("clear") => ~txnodelay' /\ pc'["tx"] = "give_go"
      /\ TxLeaves("give_go") =>
           /\ pc'["tx"] = "ifup"
           /\ waitsem' = 1 /\ holder' = "none"
           /\ txnodelay' = txnodelay
      /\ TxLeaves("give_sleep") =>
           /\ pc'["tx"] = "usleep"
           /\ waitsem' = 1 /\ holder' = "none"
           /\ txnodelay' = txnodelay
      /\ pc'["tx"] = "usleep" => TxLeaves("give_sleep") \/ pc["tx"] = "usleep"
      /\ TxLeaves("usleep") => pc'["tx"] = "ifup" /\ txnodelay' = txnodelay
    ]_vars

\* The flag was set by a transmission of the receiver; slip_txtask has
\* cleared it and released the gate and is at the up check.
C25_Witness ==
  /\ pc["tx"] = "ifup"
  /\ ~txnodelay
  /\ stats.tx_done > 0
  /\ waitsem = 1
  /\ call.fn = "slip_ifup"

\* slip_txtask is in nxsig_usleep with no signal on its way: it sleeps the
\* whole interval.
FullSleep == pc["tx"] = "usleep" /\ ~sigalrm

\* Only slip_txavail can have set the flag: no transmission has ended.
OnlyNotified == call.fn = "slip_txavail" /\ bifup /\ stats.tx_done = 0

\* C26: however slip_txavail (link up) interleaves with slip_txtask, the
\* task is never in a full-interval sleep while the flag the notification
\* set is still set and the SIGALRM sent with it is gone.
C26_WakeupNotLost == ~(FullSleep /\ txnodelay /\ OnlyNotified)

\* Whole half seconds of ticks between the baseline and the system timer.
HalfSeconds == clock_sub(clock, start_ticks) \div TICK_PER_HSEC

\* slip_txtask is inside devif_timer or devif_poll.
InPoll == polling # "none"

\* C27: an iteration of slip_txtask that finds the interface up goes on to
\* take the gate and enters exactly one poll function with the gate held and
\* txbuf installed as d_buf: devif_timer if at least one whole half second
\* of ticks has elapsed since start_ticks, devif_poll otherwise; the poll
\* function it entered is the one it leaves, after which it releases the
\* gate and starts the next iteration; outside of this it is in no poll.
C27_PollSelection ==
  [][ /\ TxLeaves("ifup") =>
           pc'["tx"] = IF bifup THEN "poll_take" ELSE "delay_take"
      /\ TxLeaves("poll_take") => pc'["tx"] = "poll_begin" /\ holder' = "tx"
      /\ TxLeaves("poll_begin") => TxStartsPoll
      /\ TxStartsPoll =>
           /\ pc["tx"] = "poll_begin"
           /\ holder = "tx" /\ holder' = "tx"
           /\ d_buf' = "tx"
           /\ hsec' = HalfSeconds
           /\ polling = "none"
           /\ polling' = IF HalfSeconds > 0 THEN "devif_timer"
                         ELSE "devif_poll"
      /\ InPoll =>
           /\ holder = "tx" /\ "tx" \in inStack
           /\ polling' # polling =>
                 /\ polling' = "none"
                 /\ pc'["tx"] = "poll_give"
                 /\ "tx" \notin inStack'
      /\ InPoll' => InPoll \/ TxStartsPoll
      /\ TxLeaves("poll_give") =>
           /\ ~InPoll
           /\ pc'["tx"] = "delay_take"
           /\ waitsem' = 1 /\ holder' = "none"
    ]_vars

\* slip_txtask is in the timer poll after two half seconds went by.
C27_Witness ==
  /\ polling = "devif_timer"
  /\ hsec = 2
  /\ holder = "tx"
  /\ d_buf = "tx"

\* The ticks from the baseline to the clock value slip_txtask read last.
Elapsed == clock_sub(now_ticks, start_ticks)

\* slip_txtask returns from the poll function f.
PollReturns(f) == polling = f /\ polling' = "none"

\* C28: on return from devif_timer start_ticks advances, modulo the clock
\* width, by hsec * TICK_PER_HSEC with hsec the whole half seconds from
\* start_ticks to now_ticks, which leaves it at or behind now_ticks and
\* keeps the remainder of the division as the elapsed time; on return from
\* devif_poll and in every other step after the task started start_ticks
\* does not change; after each poll less than a half second lies between
\* start_ticks and now_ticks.
C28_BaselineArithmetic ==
  [][ /\ PollReturns("devif_timer") =>
           /\ hsec = Elapsed \div TICK_PER_HSEC
           /\ hsec > 0
           /\ start_ticks' = (start_ticks + hsec * TICK_PER_HSEC) % ClockMod
           /\ clock_sub(start_ticks', start_ticks) <= Elapsed
           /\ Elapsed' = Elapsed % TICK_PER_HSEC
      /\ PollReturns("devif_poll") =>
           /\ hsec = 0
           /\ start_ticks' = start_ticks
      /\ start_ticks' # start_ticks => PollReturns("devif_timer")
      /\ pc'["tx"] = "poll_give" => Elapsed' < TICK_PER_HSEC
    ]_vars

\* devif_timer returned after two half seconds and one tick: the baseline
\* went two half seconds forward, past the wrap-around of the clock, and
\* the tick is kept.
C28_Witness ==
  /\ pc["tx"] = "poll_give"
  /\ hsec = 2
  /\ Elapsed = 1
  /\ start_ticks < hsec * TICK_PER_HSEC

\* slip_txtask is in nxsig_usleep.
Sleeping == pc["tx"] = "usleep"

\* C29: slip_txtask goes from its read of txnodelay to the sleep when the
\* flag is clear and to clearing the flag when it is set, and it passes to
\* the up check only out of the sleep or after it cleared the flag; while
\* the link is down a call of slip_txavail neither sets the flag nor sends
\* the signal, and the flag is set only at the end of a slip_transmit; and
\* under fair scheduling, from every state with the link down slip_txtask
\* reaches its sleep unless the link comes up.
C29_NoBusyLoop ==
  /\ [][ /\ TxLeaves("flag") =>
              pc'["tx"] = IF txnodelay THEN "clear" ELSE "give_sleep"
         /\ TxLeaves("clear") => txnodelay /\ ~txnodelay'
         /\ TxLeaves("give_sleep") => Sleeping'
         /\ (pc["tx"] # "ifup" /\ pc'["tx"] = "ifup") =>
              \/ Sleeping
              \/ pc["tx"] = "give_go"
         /\ (pc["tx"] # "give_go" /\ pc'["tx"] = "give_go") =>
              TxLeaves("clear")
         /\ (~bifup /\ TxavailCall) =>
              txnodelay' = txnodelay /\ sigalrm' = sigalrm
         /\ (~bifup /\ ~txnodelay /\ txnodelay') =>
              stats'.tx_done = stats.tx_done + 1
       ]_vars
  /\ (~bifup ~> (bifup \/ Sleeping))

\* The link is down and slip_txtask is about to clear a flag that is set:
\* this iteration will not sleep.
C29_Witness ==
  /\ ~bifup
  /\ pc["tx"] = "clear"
  /\ txnodelay
  /\ call.fn = "slip_ifdown"

\* Task t takes the gate in this step; task t gives it back in this step.
Acquires(t) == holder # t /\ holder' = t

Releases(t) == holder = t /\ holder' # t

\* Task t is in slip_semtake.
Waiting(t) ==
  IF t = "rx" THEN pc["rx"] = "take"
  ELSE pc["tx"] \in {"delay_take", "poll_take"}

\* Task t is where it holds no gate: in slip_semtake, in a sleep or a
\* blocking read, or between a release and the next slip_semtake.
Outside(t) ==
  IF t = "rx" THEN pc["rx"] \in {"getc", "first", "recv", "esc", "take"}
  ELSE pc["tx"] \in {"delay_take", "usleep", "ifup", "poll_take"}

\* C30: the gate is free or held by one task, and a task holds it exactly
\* from its slip_semtake to its next slip_semgive: it holds none where it
\* waits for the gate, sleeps, reads the serial line or tests the up flag,
\* whichever of the IPv4, IPv6, unsupported version, timer poll, plain poll
\* and delay branches it went through; the two tasks never both wait for a
\* gate that is taken; slip_txavail does not touch the gate; and under fair
\* scheduling a task that waits for the gate obtains it.
C30_GateProgress ==
  /\ [][ /\ \A t \in Tasks :
               /\ Acquires(t) =>
                    /\ Waiting(t) /\ ~Waiting(t)'
                    /\ waitsem = 1 /\ waitsem' = 0 /\ holder = "none"
               /\ Releases(t) =>
                    /\ waitsem = 0 /\ waitsem' = 1 /\ holder' = "none"
                    /\ Outside(t)'
               /\ Outside(t) <=> holder # t
               /\ Outside(t)' <=> holder' # t
         /\ waitsem \in {0, 1}
         /\ (waitsem = 0) <=> (holder \in Tasks)
         /\ ~(waitsem = 0 /\ Waiting("rx") /\ Waiting("tx"))
         /\ TxavailCall => waitsem' = waitsem /\ holder' = holder
       ]_vars
  /\ \A t \in Tasks : Waiting(t) ~> (holder = t)

\* slip_rxtask waits for the gate, which slip_txtask holds inside the timer
\* poll, and slip_txavail was called.
C30_Witness ==
  /\ Waiting("rx")
  /\ holder = "tx"
  /\ polling = "devif_timer"
  /\ call.fn = "slip_txavail"

\* The SIGALRM reaches slip_txtask in this step while it is blocked in the
\* nxsem_wait of slip_semtake.
Interrupted == sigalrm /\ ~sigalrm' /\ Waiting("tx") /\ waitsem = 0

\* C31: a SIGALRM that reaches slip_txtask while it is blocked in
\* slip_semtake makes nxsem_wait return -EINTR and leaves the task in
\* slip_semtake with the count and the holder of the gate as they were; a
\* task leaves slip_semtake only with nxsem_wait having returned OK, the
\* count taken from 1 to 0 and itself the holder; and a task inside a stack
\* call holds the gate.
C31_InterruptedWait ==
  [][ /\ Interrupted =>
           /\ pc' = pc
           /\ waitsem' = waitsem /\ holder' = holder
           /\ semret'["tx"] = "EINTR"
      /\ \A t \in Tasks :
           /\ (Waiting(t) /\ ~Waiting(t)') =>
                /\ semret'[t] = "OK"
                /\ waitsem = 1 /\ waitsem' = 0
                /\ holder' = t
           /\ t \in inStack' => holder' = t
    ]_vars

\* slip_txtask is back in its wait after an interrupted one, while
\* slip_rxtask holds the gate inside the stack.
C31_Witness ==
  /\ Waiting("tx")
  /\ semret["tx"] = "EINTR"
  /\ holder = "rx"
  /\ "rx" \in inStack
  /\ waitsem = 0

\* devif_timer or devif_poll calls slip_txpoll in this step.
Callback ==
  /\ pc["tx"] = "poll"
  /\ pc'["tx"] # "poll_give"
  /\ <<pc, polled, d_len, txbuf>>' # <<pc, polled, d_len, txbuf>>

\* slip_txtask enters slip_transmit in this step.
TxEncodes == pc["tx"] # "x_begin" /\ pc'["tx"] = "x_begin"

\* C32: a call of slip_txpoll from the poll of slip_txtask enters
\* slip_transmit if d_len > 0 and devif_loopback did not take the packet,
\* and otherwise leaves the frames sent and the wire as they are; it
\* returns 0; slip_transmit is entered only from such a call, sends the
\* packet the stack left in txbuf as one frame and returns into the poll,
\* which may call slip_txpoll again.
C32_PollCallback ==
  [][ /\ Callback =>
           /\ polled'.ret = 0
           /\ pc'["tx"] = IF d_len' > 0 /\ ~polled'.loopback THEN "x_begin"
                          ELSE "poll"
           /\ sent' = sent /\ sentBy' = sentBy /\ wire' = wire
      /\ TxEncodes => Callback
      /\ TxLeaves("x_begin") =>
           /\ d_len > 0 /\ ~polled.loopback
           /\ sent' = Append(sent, Prefix(txbuf, d_len))
           /\ sentBy' = Append(sentBy, "tx")
      /\ (pc["tx"] \in {"x_begin", "x_loop"}) =>
           sent' = sent \/ TxLeaves("x_begin")
      /\ TxLeaves("x_loop") =>
           /\ pc'["tx"] = "poll"
           /\ WholeFrames'
           /\ devif_continues(polled'.ret)
    ]_vars

\* Inside the timer poll a callback has sent the packet of the stack as
\* one frame and has returned.
C32_Witness ==
  /\ pc["tx"] = "poll"
  /\ polling = "devif_timer"
  /\ d_len > 0
  /\ ~polled.loopback
  /\ sentBy = <<"tx">>
  /\ wire = slip_transmit(txbuf, d_len)

\* Everything but the record of the last callback call.
DriverState ==
  <<pc, bifup, txnodelay, waitsem, rxlen, rxbuf, txbuf, d_buf, d_len, ch, x,
    serin, rxpos, wire, holder, inStack, delivered, sent, fault, registered,
    stats, sentBy, sigalrm, fd, fdopen, initret, clock, start_ticks,
    now_ticks, hsec, polling, semret, polled>>

\* C33: a call of slip_txavail while the up flag is false returns OK and
\* changes nothing: txnodelay keeps its value, no SIGALRM is sent, the up
\* flag, the gate and the tasks are where they were.
C33_NotifyWhileDown ==
  [][ (~bifup /\ TxavailCall) =>
        /\ call'.ret = 0
        /\ txnodelay' = txnodelay
        /\ sigalrm' = sigalrm
        /\ DriverState' = DriverState
    ]_vars

\* slip_txavail was called with the link down while the flag a
\* transmission had set was still set: the flag is kept, no signal is sent.
C33_Witness ==
  /\ call.fn = "slip_txavail"
  /\ call.ret = 0
  /\ ~bifup
  /\ txnodelay
  /\ ~sigalrm

\* slip_initialize has returned OK.
ReturnedOK == Returned /\ initret = 0

\* C34: the count of the gate semaphore is 0 or 1 in every state, the
\* startup handshake included; once slip_initialize has returned OK it is 1
\* exactly when no task is between its slip_semtake and its slip_semgive
\* and 0 exactly when one of the two tasks is.
C34_BinarySemaphore ==
  /\ waitsem \in {0, 1}
  /\ ReturnedOK =>
       /\ (waitsem = 1) <=> (holder = "none")
       /\ (waitsem = 0) <=> (holder \in Tasks)
       /\ \A t \in Tasks : Outside(t) <=> holder # t
       /\ ~(holder # "rx" /\ holder # "tx") <=> (\E t \in Tasks : ~Outside(t))

\* slip_txtask has taken the semaphore it posted at its start before
\* slip_initialize waited for it: the count is 0 and slip_initialize is in
\* its second wait.
C34_Witness ==
  /\ pc["init"] = "wait_tx"
  /\ pc["tx"] = "flag"
  /\ holder = "tx"
  /\ waitsem = 0

\* The device is open and both tasks were created.
BothCreated == pc["init"] = "wait_tx"

\* The task has posted the semaphore at its start.
Posted(t) == pc[t] \notin {"off", "start"}

\* C35: under fair scheduling, once the device is open and both tasks are
\* created slip_initialize returns OK, however its waits interleave with
\* the loop of slip_txtask; the interface is registered only in a state in
\* which both tasks have posted the semaphore at their start and
\* slip_initialize has taken it twice and posted it; and no task is inside
\* a stack call, and the up flag is false, while the interface is not
\* registered.
C35_StartupHandshake ==
  /\ BothCreated ~> ReturnedOK
  /\ [][ (~registered /\ registered') =>
           /\ Posted("rx") /\ Posted("tx")
           /\ pc["init"] = "register"
           /\ waitsem + (IF holder \in Tasks THEN 1 ELSE 0) = 1
       ]_vars
  /\ [](~registered => inStack = {} /\ ~bifup /\ delivered = <<>>)
  /\ [](ReturnedOK => registered)

\* slip_initialize has returned OK: the interface is registered, both
\* tasks have started and the stack has called no callback yet.
C35_Witness ==
  /\ ReturnedOK
  /\ registered
  /\ Posted("rx") /\ Posted("tx")
  /\ call = NoCall

\* A slip_transmit returns in this step.
TransmitEnds == stats'.tx_done # stats.tx_done

\* C36: a slip_transmit that returns, in either task, leaves txnodelay set,
\* and it returns while slip_txtask is neither at its read of the flag nor
\* between the read and the clearing; the flag goes from clear to set only
\* in a returning slip_transmit or a call of slip_txavail with the link up,
\* and from set to clear only where slip_txtask clears it after it read it
\* set; so the first read of the flag after a frame finds it set, and
\* slip_txtask then goes to the up check without the sleep.
C36_TransmitRearms ==
  [][ /\ TransmitEnds =>
           /\ txnodelay'
           /\ pc["tx"] \notin {"flag", "clear", "give_sleep", "give_go"}
           /\ \E t \in Tasks : pc[t] = "x_loop" /\ pc'[t] = XmitReturn(t)
      /\ (~txnodelay /\ txnodelay') =>
           TransmitEnds \/ (TxavailCall /\ bifup)
      /\ (txnodelay /\ ~txnodelay') =>
           TxLeaves("clear") /\ pc'["tx"] = "give_go"
      /\ (pc["tx"] # "clear" /\ pc'["tx"] = "clear") =>
           TxLeaves("flag") /\ txnodelay
      /\ (TxLeaves("flag") /\ txnodelay) => pc'["tx"] = "clear"
      /\ TxLeaves("give_go") => pc'["tx"] = "ifup"
    ]_vars

\* The reply slip_rxtask transmitted has set the flag, and slip_txtask,
\* having read it set, is about to clear it and skip the sleep.
C36_Witness ==
  /\ pc["tx"] = "clear"
  /\ txnodelay
  /\ sentBy = <<"rx">>
  /\ stats.tx_done = 1

\* C37: every packet slip_rxtask hands over has at least one byte, and it
\* waits for the gate and dispatches only with rxlen >= 1; every
\* slip_transmit, of either task, is entered with d_len >= 1, so every
\* packet sent has at least one byte and the serial line carries the
\* frames of these packets only, none of which is END END alone.
C37_NoEmptyPackets ==
  /\ \A i \in DOMAIN delivered : Len(delivered[i].pkt) >= 1
  /\ pc["rx"] \in {"take", "input"} => rxlen >= 1
  /\ \A t \in Tasks : pc[t] = "x_begin" => d_len >= 1
  /\ \A i \in DOMAIN sent : Len(sent[i]) >= 1 /\ Len(Frame(sent[i])) >= 3
  /\ IsPrefix(wire, Frames(Len(sent)))

\* Two packets were handed over from a stream with END END between them,
\* a reply was transmitted, and the input is used up.
C37_Witness ==
  /\ Len(delivered) = 2
  /\ \E i \in DOMAIN sentBy : sentBy[i] = "rx"
  /\ rxpos = Len(serin)
  /\ serin[3] = SLIP_END /\ serin[4] = SLIP_END
  /\ pc["rx"] = "getc"

\* slip_rxtask is between taking the gate for a packet and giving it back.
Processing == pc["rx"] \in {"input", "ipv4", "ipv6", "x_begin", "x_loop", "give"}

\* The packets handed over so far that went the way r.
Routed(r) == Cardinality({i \in DOMAIN delivered : delivered[i].to = r})

\* C38: the received-packet count is the number of packets handed over,
\* and the IPv4, IPv6 and error counts are the numbers of those that went
\* to ipv4_input, to ipv6_input and to neither, so that outside the
\* processing of a packet the first is the sum of the three; the
\* transmitted-packet count is the number of slip_transmit calls begun and
\* the done count equals it while no slip_transmit is under way, and is
\* one less while one is.
C38_Statistics ==
  /\ stats.rx_packets = Len(delivered)
  /\ stats.rx_ipv4 = Routed("ipv4")
  /\ stats.rx_ipv6 = Routed("ipv6")
  /\ stats.rx_errors = Routed("error")
  /\ ~Processing =>
       stats.rx_packets = stats.rx_ipv4 + stats.rx_ipv6 + stats.rx_errors
  /\ stats.tx_packets = Len(sent)
  /\ (\A t \in Tasks : ~Transmitting(t)) => stats.tx_packets = stats.tx_done
  /\ (\E t \in Tasks : Transmitting(t) /\ pc[t] # "x_begin") =>
       stats.tx_packets = stats.tx_done + 1

\* An IPv6 packet and a packet of no supported version were received and
\* a frame was transmitted; slip_rxtask is back at its read and no
\* slip_transmit is under way.
C38_Witness ==
  /\ pc["rx"] = "getc"
  /\ \A t \in Tasks : ~Transmitting(t)
  /\ stats.rx_packets = 2
  /\ stats.rx_ipv6 = 1
  /\ stats.rx_errors = 1
  /\ stats.tx_done >= 1

====
